---- MODULE Spec2Model ----
(***************************************************************************)
(* A model of the InstalingPy scheduler (src/scheduled.py) and its rcon    *)
(* control protocol (src/libs/rcon.py).                                    *)
(*                                                                         *)
(* The program is one asyncio event loop.  Every coroutine runs without    *)
(* interruption between two awaits, so every action below is the code from *)
(* one suspension point up to the next one.  A task that was cancelled     *)
(* gets CancelledError thrown at the await it is suspended at, when it     *)
(* next runs.  Profile objects and finished tasks that nothing refers to   *)
(* any more are freed.                                                     *)
(***************************************************************************)
EXTENDS Integers, Sequences, FiniteSets, TLC

\* ------------------------------------------------------------------ bounds
\* The last instant of the clock.
MaxTime == 9
\* Commands read from all connections together.
MaxCmds == 2
\* Failures of the environment (notifier, database, config file) together.
MaxFaults == 1
\* The frames a connection buffers at most.
MaxBuffer == 2
\* The ticks to the second of the clock that resolves fractions of a second.
Subsecond == 2
\* asyncio tasks created for profiles.
MaxTasks == 4
\* Configurations loaded by reload commands.
MaxReloads == 1
\* The last instant of the clock where only a short while is followed.
Soon == 5

\* --------------------------------------------------------------- constants
\* Instants are integers; a calendar day has DayLen of them.
DayLen == 4
\* Scheduler.schedule_every, in instants.
ScheduleEvery == 2

Names == {1, 2}
\* The order of the keys of the profiles dict (the order of the config file).
NameSeq == <<1, 2>>
Conns == {1, 2}

None == 0
NoTime == -1
\* datetime.datetime.fromtimestamp(0)
Epoch == 0

Today(t) == t - (t % DayLen)
TimeOf(t) == t % DayLen

RunTimes(s, e) == [start |-> s, end |-> e]

\* A name the configuration file does not have, or gives no runs.
Absent == RunTimes(NoTime, NoTime)

\* The run windows a configuration file may give a profile.
Windows == {RunTimes(1, 2), RunTimes(2, 3)}

\* shared/config.json at process start: both profiles, or profile 1 alone.
InitConfig == [n \in Names |-> IF n = 1 THEN RunTimes(1, 2) ELSE RunTimes(2, 3)]
OneConfig == [n \in Names |-> IF n = 1 THEN RunTimes(1, 2) ELSE Absent]

\* The configurations a reload may read: a window for each configured name.
Configs == [Names -> Windows \cup {Absent}]

VARIABLES
    now,                \* the wall clock
    profiles,           \* Scheduler.profiles: name -> profile object, None = no key
    objs,               \* the SolverProfile objects constructed so far
    tasks,              \* the asyncio tasks created for profiles so far
    sched,              \* Scheduler.run: its position and locals
    conn,               \* handle_rcon_client, one per connection
    inbox,              \* per connection, the frames received and not yet decoded
    scheduler_trigger,  \* Scheduler.scheduler_trigger
    faults_left,        \* failures the environment may still produce
    cmds_left,          \* commands the clients may still send
    reloads_left,       \* configurations reload commands may still load
    starts,             \* name -> the day on which a workload of it last began
    sent,               \* the response(s) the last step wrote, and the connection
    over                \* the event loop's ready queue, see Runs

vars == <<now, profiles, objs, tasks, sched, conn, inbox, scheduler_trigger, faults_left,
          cmds_left, reloads_left, starts, sent, over>>

\* ---------------------------------------------------------- SolverProfile
SolverProfile(n, rt) ==
    [profile_name |-> n, run_times |-> rt, last_run |-> Epoch, next_run |-> NoTime,
     task |-> None, running |-> FALSE, last_log |-> None]

\* random.randint(ts_min, ts_max) on today's date; r is the random draw.
RandomInWindow(rt, clock, r) ==
    IF rt.start <= rt.end
      THEN Today(clock) + rt.start + (r % (rt.end - rt.start + 1))
      ELSE Today(clock) + rt.start

\* SolverProfile.reschedule
reschedule(os, o, clock, r) ==
    [os EXCEPT ![o].next_run = RandomInWindow(os[o].run_times, clock, r)]

\* The draws of random.randint: every window of Windows has two instants.
Draws == {0, 1}

\* ------------------------------------------------------------------- tasks
Task(kind, o, inner) ==
    [kind |-> kind, profile |-> o, pc |-> "new", must_cancel |-> FALSE, wake |-> NoTime,
     inner |-> inner, result |-> "none", report |-> "none", log |-> "none"]

Done(t) == t.pc = "done"

Finish(t, how) ==
    [t EXCEPT !.pc = "done", !.result = how, !.must_cancel = FALSE, !.wake = NoTime,
              !.report = "none"]

\* asyncio.Task.cancel: a finished task ignores it; a task awaiting another
\* unfinished task passes the request on to that task; otherwise the task is
\* marked and gets CancelledError at its next step.
RECURSIVE Cancel(_, _)
Cancel(ts, t) ==
    IF Done(ts[t]) THEN ts
    ELSE IF ts[t].kind = "migrator" /\ ts[t].pc = "await" /\ ~Done(ts[ts[t].inner])
      THEN Cancel(ts, ts[t].inner)
    ELSE [ts EXCEPT ![t].must_cancel = TRUE]

\* Scheduler.start_solver_task
start_solver_task(os, ts, o) ==
    IF os[o].task # None
      THEN [objs |-> os, tasks |-> ts]
      ELSE [objs |-> [os EXCEPT ![o].task = Len(ts) + 1],
            tasks |-> Append(ts, Task("solver", o, None))]

\* ------------------------------------------------------------- responses
NoNames == {}

NoLists == [new_profiles |-> NoNames, updated_profiles |-> NoNames,
            removed_profiles |-> NoNames, deferred_profiles |-> NoNames]

\* A listing that takes the running flag for the handle.
ListedProfileRunning(listed, p) ==
    [listed |-> listed, last_run |-> p.last_run, next_run |-> p.next_run,
     task_created |-> p.running, running |-> p.running, last_log |-> p.last_log]

\* ListedProfile; listed is FALSE for a name the response does not have.
ListedProfile(listed, p) ==
    [listed |-> listed, last_run |-> p.last_run, next_run |-> p.next_run,
     task_created |-> p.task # None, running |-> p.running, last_log |-> p.last_log]

\* The profiles of a response that lists none.
NoListing == [n \in Names |-> ListedProfile(FALSE, SolverProfile(n, RunTimes(NoTime, NoTime)))]

\* A response: its type and the fields the model follows.  nonce is None
\* unless the code passes the command's nonce to the constructor.
Response(type, cmd) ==
    [type |-> type, command_type |-> cmd, error |-> "none", detail |-> FALSE,
     new_time |-> NoTime, lists |-> NoLists, nonce |-> None, profiles |-> NoListing]

\* nonce=self.nonce
WithNonce(resp, nonce) == [resp EXCEPT !.nonce = nonce]

RconErrorResponse(cmd, error) == [Response("error", cmd) EXCEPT !.error = error]

RconExitResponse(reason) == [Response("exit", "none") EXCEPT !.error = reason]

\* profile is the name of the profile the answered command has acted on.
Nothing ==
    [conn |-> None, resp |-> Response("none", "none"), first |-> Response("none", "none"),
     profile |-> None]

Send(c, resp) == sent' = [Nothing EXCEPT !.conn = c, !.resp = resp]

\* Two responses are written in one step: first, then resp.
SendBoth(c, first, resp) == sent' = [Nothing EXCEPT !.conn = c, !.resp = resp, !.first = first]

\* No response is written in this step.
NoSend == sent' = Nothing

\* ------------------------------------------------------------ the heap
\* A finished task is kept while a profile, a handler, the scheduler or an
\* unfinished migrator holds it, or its log handler is still attached to the
\* logger; a profile object is kept while the dict, a handler, the scheduler's
\* loop or such a task holds it.
FreedTask == Finish(Task("freed", None, None), "none")
FreedProfile == SolverProfile(None, Absent)

HeldTask(os, ts, ps, sc, cn, t) ==
    \/ ~Done(ts[t])
    \/ ts[t].log = "open"
    \/ \E o \in DOMAIN os : os[o].task = t
    \/ \E c \in Conns : cn[c].task = t
    \/ sc.task = t
    \/ \E u \in DOMAIN ts : ~Done(ts[u]) /\ ts[u].inner = t

HeldProfile(os, ts, ps, sc, cn, o) ==
    \/ \E n \in Names : ps[n] = o
    \/ \E c \in Conns : \/ cn[c].profile = o
                        \/ \E n \in Names : cn[c].old_profiles[n] = o
                                            \/ cn[c].new_profiles[n] = o
    \/ \E i \in DOMAIN sc.todo : sc.todo[i] = o
    \/ \E t \in DOMAIN ts : (~Done(ts[t]) \/ ts[t].log = "open") /\ ts[t].profile = o

Heap(os, ts, ps, sc, cn) ==
    LET os1 == [o \in DOMAIN os |-> IF HeldProfile(os, ts, ps, sc, cn, o)
                                      THEN os[o] ELSE FreedProfile]
        ts1 == [t \in DOMAIN ts |-> IF HeldTask(os1, ts, ps, sc, cn, t)
                                      THEN ts[t] ELSE FreedTask]
    IN  [objs |-> os1, tasks |-> ts1]

\* objs and tasks after a step whose other variables are already set.
Put(os, ts) ==
    /\ Len(ts) <= MaxTasks
    /\ LET h == Heap(os, ts, profiles', sched', conn') IN
       objs' = h.objs /\ tasks' = h.tasks

TaskIds == DOMAIN tasks
Alive == sched.pc # "dead"
\* ------------------------------------------------------- the event loop
\* What the event loop has in its ready queue runs within the instant: a task
\* not yet started, a task CancelledError is to be thrown into, a task whose
\* sleep has run out, and a coroutine whose awaited task has finished.  The
\* notifier, the database, the workload and the clients take any time.
TaskReady(t) ==
    /\ ~Done(tasks[t])
    /\ \/ tasks[t].pc = "new"
       \/ tasks[t].must_cancel
       \/ tasks[t].pc = "sleep" /\ now >= tasks[t].wake
       \/ tasks[t].pc = "await" /\ Done(tasks[tasks[t].inner])

\* Scheduler.run is about to begin a pass: the wait for the trigger is over.
SchedReady ==
    \/ sched.pc = "start"
    \/ sched.pc = "idle" /\ (scheduler_trigger \/ now >= sched.now + ScheduleEvery)
    \/ sched.pc = "await_task" /\ Done(tasks[sched.task])

HandlerReady(c) ==
    \/ conn[c].pc = "cancel_wait" /\ Done(tasks[conn[c].task])
    \/ conn[c].pc = "idle" /\ inbox[c] # <<>>

Ready ==
    \/ SchedReady
    \/ \E t \in TaskIds : TaskReady(t)
    \/ \E c \in Conns : HandlerReady(c)

\* The coroutines: Scheduler.run, the handler of connection c, and task t.
Sched == 0
Handler(c) == 0 - c
Cos == (0 - 2)..MaxTasks

ReadyCos ==
    {t \in TaskIds : TaskReady(t)}
      \cup (IF SchedReady THEN {Sched} ELSE {})
      \cup {Handler(c) : c \in {d \in Conns : HandlerReady(d)}}

NoOver == [a \in Cos |-> {}]

\* The ready queue is first in, first out: a coroutine that became ready is
\* run before any other coroutine runs twice.  over[a] holds the coroutines
\* that have run since a became ready.
Runs(me) ==
    LET r == ReadyCos IN
    /\ \A a \in r \ {me} : me \notin over[a]
    /\ over' = [a \in Cos |-> IF a # me /\ a \in r THEN over[a] \cup {me} ELSE {}]

\* ------------------------------------------------- Scheduler.solver_task
\* CancelledError is thrown into the task at the await it is suspended at.
\* Only the workload (the try block) catches it; everywhere else the task
\* ends cancelled on the spot.
SolverCancelled(t) ==
    /\ Alive
    /\ tasks[t].kind = "solver" /\ ~Done(tasks[t]) /\ tasks[t].must_cancel
    /\ Runs(t)
    /\ NoSend
    /\ UNCHANGED <<inbox, now, profiles, sched, conn, scheduler_trigger, faults_left, cmds_left, reloads_left,
                   starts>>
    /\ IF tasks[t].pc = "work"
         THEN Put(objs, [tasks EXCEPT ![t].pc = "record", ![t].must_cancel = FALSE,
                                      ![t].report = "cancelled", ![t].log = "closed"])
         ELSE Put(objs, [tasks EXCEPT ![t] = Finish(@, "cancelled")])

\* The first step: to_wait is computed from profile.next_run, then the sleep.
SolverFirstStep(t) ==
    /\ Alive
    /\ tasks[t].kind = "solver" /\ tasks[t].pc = "new" /\ ~tasks[t].must_cancel
    /\ Runs(t)
    /\ NoSend
    /\ UNCHANGED <<inbox, now, profiles, sched, conn, scheduler_trigger, faults_left, cmds_left, reloads_left,
                   starts>>
    /\ LET o == tasks[t].profile IN
       IF objs[o].next_run = NoTime
         THEN Put(objs, [tasks EXCEPT ![t] = Finish(@, "exc")])
         ELSE Put(objs, [tasks EXCEPT ![t].pc = "sleep", ![t].wake = objs[o].next_run])

\* The sleep is over: next_run, last_run and running are set, the log file is
\* opened, and the task waits for the "is starting" notification.
SolverStart(t) ==
    /\ Alive
    /\ tasks[t].kind = "solver" /\ tasks[t].pc = "sleep" /\ ~tasks[t].must_cancel
    /\ now >= tasks[t].wake
    /\ Runs(t)
    /\ NoSend
    /\ starts' = [starts EXCEPT ![objs[tasks[t].profile].profile_name] = Today(now)]
    /\ UNCHANGED <<inbox, now, profiles, sched, conn, scheduler_trigger, faults_left, cmds_left, reloads_left>>
    /\ LET o == tasks[t].profile IN
       Put([objs EXCEPT ![o].next_run = NoTime, ![o].last_run = now,
                        ![o].running = TRUE, ![o].last_log = t],
           [tasks EXCEPT ![t].pc = "notify_start", ![t].log = "open", ![t].wake = NoTime])

\* webhook.send_message("... is starting") returns or raises.
SolverNotifyStart(t) ==
    /\ Alive
    /\ tasks[t].kind = "solver" /\ tasks[t].pc = "notify_start" /\ ~tasks[t].must_cancel
    /\ Runs(t)
    /\ NoSend
    /\ UNCHANGED <<inbox, now, profiles, sched, conn, scheduler_trigger, cmds_left, reloads_left, starts>>
    /\ \/ /\ UNCHANGED faults_left
          /\ Put(objs, [tasks EXCEPT ![t].pc = "work"])
       \/ /\ faults_left > 0
          /\ faults_left' = faults_left - 1
          /\ Put(objs, [tasks EXCEPT ![t] = Finish(@, "exc")])

\* The workload returns or raises, and the log handler is closed.
SolverWork(t) ==
    /\ Alive
    /\ tasks[t].kind = "solver" /\ tasks[t].pc = "work" /\ ~tasks[t].must_cancel
    /\ Runs(t)
    /\ NoSend
    /\ UNCHANGED <<inbox, now, profiles, sched, conn, scheduler_trigger, faults_left, cmds_left, reloads_left,
                   starts>>
    /\ \E outcome \in {"finished", "crashed"} :
         Put(objs, [tasks EXCEPT ![t].pc = "record", ![t].report = outcome,
                                 ![t].log = "closed"])

\* The awaits on the database (log_session_timing when the sign-in had given
\* a user id, then capture_wordcounts_snapshot) return, or one of them raises.
\* Both are outside the try block, so they are one step here.
SolverRecord(t) ==
    /\ Alive
    /\ tasks[t].kind = "solver" /\ tasks[t].pc = "record" /\ ~tasks[t].must_cancel
    /\ Runs(t)
    /\ NoSend
    /\ UNCHANGED <<inbox, now, profiles, sched, conn, scheduler_trigger, cmds_left, reloads_left, starts>>
    /\ \/ /\ UNCHANGED faults_left
          /\ Put(objs, [tasks EXCEPT ![t].pc = "notify_end"])
       \/ /\ faults_left > 0
          /\ faults_left' = faults_left - 1
          /\ Put(objs, [tasks EXCEPT ![t] = Finish(@, "exc")])

\* The outcome notification returns or raises (which is caught); then the
\* task clears the profile's task and running.
SolverNotifyEnd(t) ==
    /\ Alive
    /\ tasks[t].kind = "solver" /\ tasks[t].pc = "notify_end" /\ ~tasks[t].must_cancel
    /\ Runs(t)
    /\ NoSend
    /\ UNCHANGED <<inbox, now, profiles, sched, conn, scheduler_trigger, cmds_left, reloads_left, starts>>
    /\ \/ UNCHANGED faults_left
       \/ faults_left > 0 /\ faults_left' = faults_left - 1
    /\ Put([objs EXCEPT ![tasks[t].profile].task = None,
                        ![tasks[t].profile].running = FALSE],
           [tasks EXCEPT ![t] = Finish(@, "ok")])

\* --------------------------------------- RconReloadCommand.profile_migrator
\* await task: the result of the awaited task is the migrator's own.
MigratorAfterAwait(os, ts, t) ==
    LET how == ts[ts[t].inner].result IN
    [objs |-> IF how = "ok"
                THEN [os EXCEPT ![ts[t].profile].task = None,
                                ![ts[t].profile].running = FALSE]
                ELSE os,
     tasks |-> [ts EXCEPT ![t] = Finish(@, how)]]

MigratorCancelled(t) ==
    /\ Alive
    /\ tasks[t].kind = "migrator" /\ ~Done(tasks[t]) /\ tasks[t].must_cancel
    /\ Runs(t)
    /\ NoSend
    /\ UNCHANGED <<inbox, now, profiles, sched, conn, scheduler_trigger, faults_left, cmds_left, reloads_left,
                   starts>>
    /\ Put(objs, [tasks EXCEPT ![t] = Finish(@, "cancelled")])

MigratorStep(t) ==
    /\ Alive
    /\ tasks[t].kind = "migrator" /\ ~Done(tasks[t]) /\ ~tasks[t].must_cancel
    /\ Runs(t)
    /\ NoSend
    /\ UNCHANGED <<inbox, now, profiles, sched, conn, scheduler_trigger, faults_left, cmds_left, reloads_left,
                   starts>>
    /\ IF Done(tasks[tasks[t].inner])
         THEN LET r == MigratorAfterAwait(objs, tasks, t) IN Put(r.objs, r.tasks)
         ELSE tasks[t].pc = "new" /\ Put(objs, [tasks EXCEPT ![t].pc = "await"])

\* ------------------------------------------------------------------- clock
\* Time passes while nothing is ready.
Tick ==
    /\ Alive
    /\ ~Ready
    /\ now < MaxTime
    /\ now' = now + 1
    /\ over' = NoOver
    /\ NoSend
    /\ UNCHANGED <<profiles, objs, tasks, sched, conn, inbox, scheduler_trigger, faults_left, cmds_left,
                   reloads_left, starts>>

\* ---------------------------------------------------------- Scheduler.run
\* self.profiles.items(): the objects of the dict, in key order.
Items(ps) ==
    LET F[i \in 0..Len(NameSeq)] ==
          IF i = 0 THEN <<>>
          ELSE IF ps[NameSeq[i]] # None THEN Append(F[i - 1], ps[NameSeq[i]])
          ELSE F[i - 1]
    IN  F[Len(NameSeq)]

Suspend(os, ts, sc, pc) == [objs |-> os, tasks |-> ts, sched |-> [sc EXCEPT !.pc = pc]]

\* Scheduler.run has raised: asyncio.gather passes the exception on to main,
\* and the process ends.
Dead == [pc |-> "dead", now |-> None, todo |-> <<>>, task |-> None]

\* The handlers of the logger "solver.<name>" are removed and closed.
CloseHandlers(os, ts, n) ==
    [i \in DOMAIN ts |->
        IF ts[i].log = "open" /\ os[ts[i].profile].profile_name = n
          THEN [ts[i] EXCEPT !.log = "closed"]
          ELSE ts[i]]

\* A launch phase that leaves out a profile due in exactly one interval.
NotDueEarly(p, clock) ==
    p.next_run = NoTime \/ p.task # None \/ p.next_run - clock >= ScheduleEvery

\* if profile.next_run is None or profile.task is not None
\*    or profile.next_run - now > self.schedule_every: continue
NotDue(p, clock) ==
    p.next_run = NoTime \/ p.task # None \/ p.next_run - clock > ScheduleEvery

\* The "Run stuff" loop over the dict the attribute holds now; it has no
\* await.
RECURSIVE Launch(_, _, _, _)
Launch(os, ts, names, clock) ==
    IF names = <<>> THEN [objs |-> os, tasks |-> ts]
    ELSE LET o == profiles[Head(names)] IN
         IF o = None THEN Launch(os, ts, Tail(names), clock)
         ELSE IF NotDue(os[o], clock)
           THEN Launch(os, ts, Tail(names), clock)
         ELSE LET r == start_solver_task([os EXCEPT ![o].last_run = clock], ts, o)
              IN  Launch(r.objs, r.tasks, Tail(names), clock)

\* After the loops the scheduler waits for the trigger, at most schedule_every.
SchedLaunch(os, ts, sc) ==
    LET r == Launch(os, ts, NameSeq, sc.now) IN
    [objs |-> r.objs, tasks |-> r.tasks,
     sched |-> [pc |-> "idle", now |-> now, todo |-> <<>>, task |-> None]]

RECURSIVE SchedLoop(_, _, _, _)

\* A scheduler that forgets the day's run.
RanTodayNever(p, clock) == FALSE

\* if profile.last_run >= today: continue
RanToday(p, clock) == p.last_run >= Today(clock)

\* A scheduler that takes no window for missed.
MissedNever(p, clock) == FALSE

\* if profile.next_run is None and profile.run_times.end < now.time()
Missed(p, clock) == p.next_run = NoTime /\ p.run_times.end < TimeOf(clock)

\* if profile.next_run is None: reschedule, then the "has been scheduled"
\* notification.
SchedPick(os, ts, sc, r) ==
    LET o == Head(sc.todo) IN
    IF os[o].next_run = NoTime
      THEN Suspend(reschedule(os, o, now, r), ts, sc, "wh_sched")
      ELSE SchedLoop(os, ts, [sc EXCEPT !.todo = Tail(@)], r)

\* await profile.task has ended: the task returned, raised, or was cancelled
\* (CancelledError is no Exception: it leaves Scheduler.run).
SchedAfterAwait(os, ts, sc, t) ==
    LET sc1 == [sc EXCEPT !.task = None] IN
    CASE ts[t].result = "ok" -> Suspend(os, ts, sc1, "wh_unset")
      [] ts[t].result = "exc" ->
            Suspend(os, CloseHandlers(os, ts, os[Head(sc.todo)].profile_name), sc1,
                    "wh_crash")
      [] OTHER -> [objs |-> os, tasks |-> ts, sched |-> Dead]

\* The "Schedule stuff" loop from the head of sc.todo up to its next await.
SchedLoop(os, ts, sc, r) ==
    IF sc.todo = <<>> THEN SchedLaunch(os, ts, sc)
    ELSE LET o == Head(sc.todo)
             p == os[o]
         IN
         IF RanToday(p, sc.now)
           THEN SchedLoop(os, ts, [sc EXCEPT !.todo = Tail(@)], r)
         ELSE IF Missed(p, sc.now)
           THEN Suspend([os EXCEPT ![o].last_run = sc.now], ts, sc, "wh_skip")
         ELSE IF p.task = None /\ p.running
           THEN Suspend(os, ts, sc, "wh_bug")
         ELSE IF p.task # None /\ p.running
           THEN IF Done(ts[p.task])
                  THEN SchedAfterAwait(os, ts, sc, p.task)
                  ELSE Suspend(os, Cancel(ts, p.task), [sc EXCEPT !.task = p.task],
                               "await_task")
         ELSE SchedPick(os, ts, sc, r)

SchedApply(r) ==
    /\ sched' = r.sched
    /\ Put(r.objs, r.tasks)

\* The first pass begins; or the wait for the trigger ends (it is set, or
\* schedule_every has passed), the trigger is cleared and the next pass begins.
SchedWake ==
    /\ \/ sched.pc = "start" /\ UNCHANGED scheduler_trigger
       \/ /\ sched.pc = "idle"
          /\ scheduler_trigger \/ now >= sched.now + ScheduleEvery
          /\ scheduler_trigger' = FALSE
    /\ Runs(Sched)
    /\ NoSend
    /\ UNCHANGED <<inbox, now, profiles, conn, faults_left, cmds_left, reloads_left, starts>>
    /\ \E r \in Draws :
         SchedApply(SchedLoop(objs, tasks,
                              [pc |-> "loop", now |-> now, todo |-> Items(profiles),
                               task |-> None], r))

\* A notification of the pass returns, or raises and ends Scheduler.run.
SchedWebhook ==
    /\ sched.pc \in {"wh_skip", "wh_bug", "wh_unset", "wh_crash", "wh_sched"}
    /\ Runs(Sched)
    /\ NoSend
    /\ UNCHANGED <<inbox, now, profiles, conn, scheduler_trigger, cmds_left, reloads_left, starts>>
    /\ \/ /\ UNCHANGED faults_left
          /\ LET o == Head(sched.todo)
                 rest == [sched EXCEPT !.todo = Tail(@)]
             IN \E r \in Draws :
                CASE sched.pc \in {"wh_skip", "wh_sched"} ->
                        SchedApply(SchedLoop(objs, tasks, rest, r))
                  [] sched.pc = "wh_bug" ->
                        SchedApply(SchedPick([objs EXCEPT ![o].running = FALSE], tasks,
                                             sched, r))
                  [] sched.pc = "wh_unset" ->
                        SchedApply(SchedPick(objs, tasks, sched, r))
                  [] sched.pc = "wh_crash" ->
                        SchedApply(SchedPick([objs EXCEPT ![o].task = None,
                                                          ![o].running = FALSE],
                                             tasks, sched, r))
       \/ /\ faults_left > 0
          /\ faults_left' = faults_left - 1
          /\ SchedApply([objs |-> objs, tasks |-> tasks, sched |-> Dead])

\* The task the pass awaits has finished.
SchedTaskDone ==
    /\ sched.pc = "await_task"
    /\ Done(tasks[sched.task])
    /\ Runs(Sched)
    /\ NoSend
    /\ UNCHANGED <<inbox, now, profiles, conn, scheduler_trigger, faults_left, cmds_left, reloads_left, starts>>
    /\ SchedApply(SchedAfterAwait(objs, tasks, sched, sched.task))

\* ------------------------------------------------------ handle_rcon_client
EmptyStore == [n \in Names |-> None]

\* The locals of a connection's handler when it waits for a frame.  tracked
\* records the names that had a handle when the reload in progress began.
Waiting ==
    [pc |-> "idle", cmd |-> "none", profile |-> None, task |-> None, next_run |-> NoTime,
     now |-> None, old_profiles |-> EmptyStore, new_profiles |-> EmptyStore,
     deferred |-> NoNames, todo |-> <<>>, tracked |-> NoNames, nonce |-> None]

\* The handler has left its loop: the connection is closed.
Closed == [Waiting EXCEPT !.pc = "closed"]

\* except Exception: the exit response "server_error", then the connection
\* is closed.  The handler is marked until the response is written.
ServerError == [Closed EXCEPT !.cmd = "server_error"]

Result(os, ts, h) == [objs |-> os, tasks |-> ts, conn |-> h]

RECURSIVE ReloadLoop(_, _, _)

\* A reload that copies no run state and starts no migrator.
ReloadCopiesNothing(h, os, ts) ==
    Result(os, ts, [h EXCEPT !.pc = "reload_wh", !.profile = None, !.task = None])

\* The copy of the run state onto the updated profiles, then a migrator task
\* for every deferred profile that has a task; then the notification.
ReloadCopy(h, os, ts) ==
    LET old == h.old_profiles
        new == h.new_profiles
        Copied == [i \in DOMAIN os |->
                     IF \E n \in Names : new[n] = i /\ old[n] # None
                       THEN LET n == CHOOSE n \in Names : new[n] = i
                                q == os[old[n]]
                            IN  [os[i] EXCEPT !.last_run = q.last_run, !.next_run = q.next_run,
                                              !.task = q.task, !.running = q.running,
                                              !.last_log = q.last_log]
                       ELSE os[i]]
        M[k \in 0..Len(NameSeq)] ==
          IF k = 0 THEN [objs |-> Copied, tasks |-> ts]
          ELSE LET n == NameSeq[k]
                   prev == M[k - 1]
               IN  IF n \in h.deferred /\ prev.objs[new[n]].task # None
                     THEN [objs |-> [prev.objs EXCEPT ![new[n]].task = Len(prev.tasks) + 1],
                           tasks |-> Append(prev.tasks,
                                            Task("migrator", new[n], prev.objs[new[n]].task))]
                     ELSE prev
    IN  Result(M[Len(NameSeq)].objs, M[Len(NameSeq)].tasks,
               [h EXCEPT !.pc = "reload_wh", !.profile = None, !.task = None])

\* What follows cancel_task in the command the handler is processing.
ContinueAfterCancel(h, os, ts) ==
    IF h.cmd = "reload"
      THEN ReloadLoop([h EXCEPT !.todo = Tail(@), !.task = None], os, ts)
    ELSE IF h.cmd = "run_now" \/ (h.cmd = "reschedule" /\ h.next_run - now < ScheduleEvery)
      THEN LET r == start_solver_task(os, ts, h.profile)
           IN  Result(r.objs, r.tasks, [h EXCEPT !.pc = "wh", !.task = None])
    ELSE Result(os, ts, [h EXCEPT !.pc = "wh", !.task = None])

\* cancel_task after "await self.task": an exception of the task is raised in
\* the handler; otherwise (the task returned or was cancelled) the profile's
\* task and running are cleared.
AfterAwaitTask(h, os, ts, t) ==
    IF ts[t].result = "exc"
      THEN Result(os, ts, ServerError)
      ELSE ContinueAfterCancel(h, [os EXCEPT ![h.profile].task = None,
                                             ![h.profile].running = FALSE], ts)

\* SolverProfile.cancel_task on h.profile
cancel_task(h, os, ts) ==
    LET t == os[h.profile].task IN
    IF t = None THEN ContinueAfterCancel(h, os, ts)
    ELSE IF Done(ts[t]) THEN AfterAwaitTask(h, os, ts, t)
    ELSE Result(os, Cancel(ts, t), [h EXCEPT !.pc = "cancel_wait", !.task = t])

\* A reload that cancels the task of every profile, running or not.
CancelsAll(os, o) == TRUE

\* if not profile.running
CancelsPending(os, o) == ~os[o].running

\* for name, profile in old_profiles.items(), from the head of h.todo
ReloadLoop(h, os, ts) ==
    IF h.todo = <<>> THEN ReloadCopy(h, os, ts)
    ELSE LET n == Head(h.todo)
             o == h.old_profiles[n]
         IN  IF CancelsPending(os, o)
               THEN cancel_task([h EXCEPT !.profile = o], os, ts)
             ELSE IF h.new_profiles[n] # None
               THEN ReloadLoop([h EXCEPT !.todo = Tail(@), !.deferred = @ \cup {n}], os, ts)
             ELSE ReloadLoop([h EXCEPT !.todo = Tail(@)], os, ts)

\* A handler that reports a failure and reads on.
BecomeOpen(c, h) ==
    /\ conn' = [conn EXCEPT ![c] = IF h = ServerError THEN Waiting ELSE h]
    /\ IF h = ServerError THEN Send(c, RconExitResponse("server_error")) ELSE NoSend

\* The handler of c goes on as h; h = ServerError writes the exit response.
Become(c, h) ==
    /\ conn' = [conn EXCEPT ![c] = IF h = ServerError THEN Closed ELSE h]
    /\ IF h = ServerError THEN Send(c, RconExitResponse("server_error")) ELSE NoSend

Apply(c, r) == Become(c, r.conn) /\ Put(r.objs, r.tasks)

\* The response is written and the handler reads the next frame.
Reply(c, resp) ==
    /\ conn' = [conn EXCEPT ![c] = Waiting]
    /\ sent' = [Nothing EXCEPT !.conn = c, !.resp = resp,
                               !.profile = IF conn[c].profile = None THEN None
                                           ELSE objs[conn[c].profile].profile_name]

\* A handler that reads on while a command is in progress.
ReadingAhead(c) == Alive /\ conn[c].pc # "closed" /\ cmds_left > 0

\* The handler of c is at reader.readuntil.
Reading(c) == Alive /\ conn[c].pc = "idle" /\ cmds_left > 0

\* A client connects: the greeting is sent.
Connect(c) ==
    /\ Alive
    /\ conn[c].pc = "closed"
    /\ cmds_left > 0
    /\ Runs(Handler(c))
    /\ inbox' = [inbox EXCEPT ![c] = <<>>]
    /\ Reply(c, Response("message", "none"))
    /\ UNCHANGED <<now, profiles, objs, tasks, sched, scheduler_trigger, faults_left, cmds_left,
                   reloads_left, starts>>

\* RconRescheduleCommand.process up to its first await.  new_time is None
\* (NoTime) or an instant.
Reschedule(c, n, new_time, nonce) ==
    /\ Reading(c)
    /\ Runs(Handler(c))
    /\ cmds_left' = cmds_left - 1
    /\ UNCHANGED <<now, profiles, sched, scheduler_trigger, faults_left, reloads_left, starts>>
    /\ LET o == profiles[n] IN
       IF o = None
         THEN Reply(c, WithNonce(RconErrorResponse("reschedule", "not_found"), nonce)) /\ UNCHANGED <<objs, tasks>>
       ELSE IF objs[o].task # None /\ objs[o].running
         THEN Reply(c, WithNonce(RconErrorResponse("reschedule", "running"), nonce)) /\ UNCHANGED <<objs, tasks>>
       ELSE IF new_time = NoTime /\ objs[o].run_times.end < TimeOf(now)
         THEN Reply(c, WithNonce(RconErrorResponse("reschedule", "window_closed"), nonce))
              /\ UNCHANGED <<objs, tasks>>
       ELSE IF new_time # NoTime /\ new_time < now
         THEN Reply(c, WithNonce(RconErrorResponse("reschedule", "past"), nonce)) /\ UNCHANGED <<objs, tasks>>
       ELSE \E r \in Draws :
              LET os == IF new_time = NoTime THEN reschedule(objs, o, now, r)
                                             ELSE [objs EXCEPT ![o].next_run = new_time]
                  h  == [conn[c] EXCEPT !.nonce = nonce, !.cmd = "reschedule", !.profile = o,
                                        !.next_run = os[o].next_run]
              IN  Apply(c, cancel_task(h, os, tasks))

\* RconCancelCommand.cancel up to its first await.
CancelCmd(c, n, force, nonce) ==
    /\ Reading(c)
    /\ Runs(Handler(c))
    /\ cmds_left' = cmds_left - 1
    /\ UNCHANGED <<now, profiles, sched, scheduler_trigger, faults_left, reloads_left, starts>>
    /\ LET o == profiles[n]
           type == IF force THEN "force_cancel" ELSE "cancel"
       IN
       IF o = None
         THEN Reply(c, WithNonce(RconErrorResponse(type, "not_found"), nonce)) /\ UNCHANGED <<objs, tasks>>
       ELSE IF ~force /\ objs[o].task # None /\ objs[o].running
         THEN Reply(c, WithNonce(RconErrorResponse(type, "running"), nonce)) /\ UNCHANGED <<objs, tasks>>
       ELSE Apply(c, cancel_task([conn[c] EXCEPT !.nonce = nonce, !.cmd = type, !.profile = o],
                                 [objs EXCEPT ![o].last_run = now, ![o].next_run = NoTime],
                                 tasks))

\* RconRunNowCommand.process up to its first await.
RunNow(c, n, nonce) ==
    /\ Reading(c)
    /\ Runs(Handler(c))
    /\ cmds_left' = cmds_left - 1
    /\ UNCHANGED <<now, profiles, sched, scheduler_trigger, faults_left, reloads_left, starts>>
    /\ LET o == profiles[n] IN
       IF o = None
         THEN Reply(c, WithNonce(RconErrorResponse("run_now", "not_found"), nonce)) /\ UNCHANGED <<objs, tasks>>
       ELSE IF objs[o].task # None /\ objs[o].running
         THEN Reply(c, WithNonce(RconErrorResponse("run_now", "running"), nonce)) /\ UNCHANGED <<objs, tasks>>
       ELSE Apply(c, cancel_task([conn[c] EXCEPT !.nonce = nonce, !.cmd = "run_now", !.profile = o],
                                 [objs EXCEPT ![o].next_run = now], tasks))

\* RconTriggerSchedulerCommand.process
TriggerScheduler(c, nonce) ==
    /\ Reading(c)
    /\ Runs(Handler(c))
    /\ cmds_left' = cmds_left - 1
    /\ scheduler_trigger' = TRUE
    /\ Reply(c, WithNonce(Response("success", "trigger_scheduler"), nonce))
    /\ UNCHANGED <<now, profiles, objs, tasks, sched, faults_left, reloads_left, starts>>

\* The task cancel_task awaits has finished.
CancelWaitDone(c) ==
    /\ Alive
    /\ conn[c].pc = "cancel_wait"
    /\ Done(tasks[conn[c].task])
    /\ Runs(Handler(c))
    /\ UNCHANGED <<inbox, now, profiles, sched, scheduler_trigger, faults_left, cmds_left, reloads_left, starts>>
    /\ Apply(c, AfterAwaitTask(conn[c], objs, tasks, conn[c].task))

\* The notification that ends reschedule, cancel, force_cancel and run_now
\* returns, and the response is sent; or it raises.
CommandWebhook(c) ==
    /\ Alive
    /\ conn[c].pc = "wh"
    /\ Runs(Handler(c))
    /\ UNCHANGED <<inbox, now, profiles, sched, scheduler_trigger, cmds_left, reloads_left, starts>>
    /\ \/ /\ UNCHANGED faults_left
          /\ Reply(c, WithNonce(IF conn[c].cmd = "reschedule"
                                   THEN [Response("profile_rescheduled", "reschedule")
                                           EXCEPT !.new_time = conn[c].next_run]
                                   ELSE Response("success", conn[c].cmd),
                                 conn[c].nonce))
       \/ /\ faults_left > 0
          /\ faults_left' = faults_left - 1
          /\ Become(c, ServerError)
    /\ Put(objs, tasks)

\* ------------------------------------------------------ RconReloadCommand
\* load_config: a new SolverProfile for every name the file configures.
LoadConfig(os, cfg) ==
    LET F[k \in 0..Len(NameSeq)] ==
          IF k = 0 THEN [objs |-> os, profiles |-> EmptyStore]
          ELSE LET n == NameSeq[k]
                   prev == F[k - 1]
               IN  IF cfg[n] = Absent THEN prev
                   ELSE [objs |-> Append(prev.objs, SolverProfile(n, cfg[n])),
                         profiles |-> [prev.profiles EXCEPT ![n] = Len(prev.objs) + 1]]
    IN  F[Len(NameSeq)]

\* The keys of a profiles dict, in order.
Keys(ps) == SelectSeq(NameSeq, LAMBDA n : ps[n] # None)

\* A reload that leaves every next_run as it is.
OutdatedNever(p, clock) == FALSE

\* if not profile.running and profile.next_run is not None
\*    and now < profile.run_times.end
\*    and not profile.run_times.start <= profile.next_run.time() <= profile.run_times.end
Outdated(p, clock) ==
    /\ ~p.running
    /\ p.next_run # NoTime
    /\ clock < p.run_times.end
    /\ ~(p.run_times.start <= TimeOf(p.next_run) /\ TimeOf(p.next_run) <= p.run_times.end)

\* The last loop of the reload, from the head of h.todo up to its next await:
\* a profile that is not running and whose next_run lies outside its window is
\* rescheduled while the window is still open.
RECURSIVE ReloadResched(_, _, _)
ReloadResched(h, os, r) ==
    IF h.todo = <<>> THEN Result(os, tasks, [h EXCEPT !.pc = "reload_done"])
    ELSE LET o == h.new_profiles[Head(h.todo)]
             p == os[o]
         IN  IF Outdated(p, h.now)
               THEN Result(reschedule(os, o, now, r), tasks, [h EXCEPT !.pc = "reload_rs"])
               ELSE ReloadResched([h EXCEPT !.todo = Tail(@)], os, r)

RconReloadCompleteResponse(h) ==
    [Response("reload", "reload") EXCEPT
       !.nonce = h.nonce,
       !.lists = [new_profiles |-> {n \in Names : h.new_profiles[n] # None
                                                  /\ h.old_profiles[n] = None},
                  updated_profiles |-> {n \in Names : h.new_profiles[n] # None
                                                      /\ h.old_profiles[n] # None},
                  removed_profiles |-> {n \in Names : h.old_profiles[n] # None
                                                      /\ h.new_profiles[n] = None},
                  deferred_profiles |-> h.deferred]]

\* scheduler.profiles = new_profiles; schedule_now(); the response.  Or the
\* loop has suspended at a notification.
ReloadEnd(c, r) ==
    IF r.conn.pc = "reload_done"
      THEN /\ profiles' = r.conn.new_profiles
           /\ scheduler_trigger' = TRUE
           /\ Reply(c, RconReloadCompleteResponse(r.conn))
           /\ Put(r.objs, r.tasks)
      ELSE /\ UNCHANGED <<profiles, scheduler_trigger>>
           /\ Apply(c, r)

\* A reload that answers a failed load by dropping the profiles.
ReloadFailDrops(c, nonce) ==
    /\ Reading(c)
    /\ cmds_left' = cmds_left - 1
    /\ faults_left > 0
    /\ Runs(Handler(c))
    /\ faults_left' = faults_left - 1
    /\ profiles' = EmptyStore
    /\ Reply(c, WithNonce([RconErrorResponse("reload", "load_failed") EXCEPT !.detail = TRUE],
                           nonce))
    /\ UNCHANGED <<now, sched, scheduler_trigger, reloads_left, starts>>
    /\ Put(objs, tasks)

\* load_config raises: the error response.
ReloadFail(c, nonce) ==
    /\ Reading(c)
    /\ cmds_left' = cmds_left - 1
    /\ faults_left > 0
    /\ Runs(Handler(c))
    /\ faults_left' = faults_left - 1
    /\ Reply(c, WithNonce([RconErrorResponse("reload", "load_failed") EXCEPT !.detail = TRUE],
                           nonce))
    /\ UNCHANGED <<now, profiles, objs, tasks, sched, scheduler_trigger, reloads_left, starts>>

\* load_config returns: the dict is taken out, and the tasks of the profiles
\* that are not running are cancelled, up to the first await.
Reload(c, cfg, nonce) ==
    /\ Reading(c)
    /\ cmds_left' = cmds_left - 1
    /\ reloads_left > 0
    /\ Runs(Handler(c))
    /\ reloads_left' = reloads_left - 1
    /\ profiles' = EmptyStore
    /\ UNCHANGED <<now, sched, scheduler_trigger, faults_left, starts>>
    /\ LET l == LoadConfig(objs, cfg)
           h == [conn[c] EXCEPT !.nonce = nonce, !.cmd = "reload", !.old_profiles = profiles,
                                !.new_profiles = l.profiles, !.todo = Keys(profiles),
                                !.tracked = {n \in Names : /\ profiles[n] # None
                                                           /\ objs[profiles[n]].task # None}]
       IN  Apply(c, ReloadLoop(h, l.objs, tasks))

\* The "Profile config reloaded" notification returns or raises.
ReloadWebhook(c) ==
    /\ Alive
    /\ conn[c].pc = "reload_wh"
    /\ Runs(Handler(c))
    /\ UNCHANGED <<inbox, now, sched, cmds_left, reloads_left, starts>>
    /\ \/ /\ UNCHANGED faults_left
          /\ \E r \in Draws :
               ReloadEnd(c, ReloadResched([conn[c] EXCEPT !.now = TimeOf(now),
                                                          !.todo = Keys(conn[c].new_profiles)],
                                          objs, r))
       \/ /\ faults_left > 0
          /\ faults_left' = faults_left - 1
          /\ UNCHANGED <<profiles, scheduler_trigger>>
          /\ Become(c, ServerError)
          /\ Put(objs, tasks)

\* The "has been rescheduled" notification of the reload returns or raises.
ReloadReschedWebhook(c) ==
    /\ Alive
    /\ conn[c].pc = "reload_rs"
    /\ Runs(Handler(c))
    /\ UNCHANGED <<inbox, now, sched, cmds_left, reloads_left, starts>>
    /\ \/ /\ UNCHANGED faults_left
          /\ \E r \in Draws :
               ReloadEnd(c, ReloadResched([conn[c] EXCEPT !.todo = Tail(@)], objs, r))
       \/ /\ faults_left > 0
          /\ faults_left' = faults_left - 1
          /\ UNCHANGED <<profiles, scheduler_trigger>>
          /\ Become(c, ServerError)
          /\ Put(objs, tasks)

\* ----------------------------------------------------------- specification
\* main: load_config, then Scheduler.run and the rcon server side by side.
BootAt(clock, cfg, cmds, reloads, failures) ==
    /\ now = clock
    /\ objs = LoadConfig(<<>>, cfg).objs
    /\ profiles = LoadConfig(<<>>, cfg).profiles
    /\ tasks = <<>>
    /\ sched = [pc |-> "start", now |-> None, todo |-> <<>>, task |-> None]
    /\ conn = [c \in Conns |-> Closed]
    /\ inbox = [c \in Conns |-> <<>>]
    /\ sent = Nothing
    /\ scheduler_trigger = FALSE
    /\ faults_left = failures
    /\ cmds_left = cmds
    /\ reloads_left = reloads
    /\ starts = [n \in Names |-> NoTime]
    /\ over = NoOver

\* The process starts at midnight.
Boot(cfg, cmds, reloads, failures) == BootAt(DayLen, cfg, cmds, reloads, failures)

\* ------------------------------------------- commands without a profile
\* RconPingCommand.process
Ping(c, nonce) ==
    /\ Reading(c)
    /\ Runs(Handler(c))
    /\ cmds_left' = cmds_left - 1
    /\ Reply(c, WithNonce(Response("pong", "none"), nonce))
    /\ UNCHANGED <<now, profiles, objs, tasks, sched, scheduler_trigger, faults_left,
                   reloads_left, starts>>

\* RconEchoCommand.process
Echo(c, nonce) ==
    /\ Reading(c)
    /\ Runs(Handler(c))
    /\ cmds_left' = cmds_left - 1
    /\ Reply(c, WithNonce(Response("message", "none"), nonce))
    /\ UNCHANGED <<now, profiles, objs, tasks, sched, scheduler_trigger, faults_left,
                   reloads_left, starts>>

\* A handler that answers RconExit(reason) and reads on.
LeaveOpen(c, reason) ==
    /\ conn' = [conn EXCEPT ![c] = Waiting]
    /\ Send(c, RconExitResponse(reason))

\* The handler leaves its loop with RconExit(reason): the exit response is
\* written, built by RconExit.response from the reason alone, and the
\* connection is closed.
Leave(c, reason) ==
    /\ conn' = [conn EXCEPT ![c] = Closed]
    /\ Send(c, RconExitResponse(reason))

\* RconExitCommand.process
Exit(c, nonce) ==
    /\ Reading(c)
    /\ Runs(Handler(c))
    /\ cmds_left' = cmds_left - 1
    /\ Leave(c, "user_request")
    /\ UNCHANGED <<now, profiles, sched, scheduler_trigger, faults_left, reloads_left, starts>>
    /\ Put(objs, tasks)

\* RconWebhookSendCommand.process up to its await.
WebhookSend(c, nonce) ==
    /\ Reading(c)
    /\ Runs(Handler(c))
    /\ cmds_left' = cmds_left - 1
    /\ conn' = [conn EXCEPT ![c] = [@ EXCEPT !.nonce = nonce, !.cmd = "wh_send", !.pc = "wh"]]
    /\ NoSend
    /\ UNCHANGED <<now, profiles, objs, tasks, sched, scheduler_trigger, faults_left,
                   reloads_left, starts>>

\* RconListProfilesCommand.process
ListProfiles(c, nonce) ==
    /\ Reading(c)
    /\ Runs(Handler(c))
    /\ cmds_left' = cmds_left - 1
    /\ Reply(c, [WithNonce(Response("list_profiles", "none"), nonce) EXCEPT
                   !.profiles = [n \in Names |->
                                   IF profiles[n] = None THEN NoListing[n]
                                   ELSE ListedProfile(TRUE, objs[profiles[n]])]])
    /\ UNCHANGED <<now, profiles, objs, tasks, sched, scheduler_trigger, faults_left,
                   reloads_left, starts>>

\* A handler that answers a frame it cannot decode and reads on.
InvalidReadsOn(c) ==
    /\ Reading(c)
    /\ Runs(Handler(c))
    /\ cmds_left' = cmds_left - 1
    /\ conn' = [conn EXCEPT ![c] = Waiting]
    /\ SendBoth(c, Response("validation_error", "none"), RconExitResponse("invalid_command"))
    /\ UNCHANGED <<now, profiles, sched, scheduler_trigger, faults_left, reloads_left, starts>>
    /\ Put(objs, tasks)

\* A frame that RconCommand.parse_raw rejects: the validation errors are
\* written, then RconExit("invalid_command") ends the loop.
Invalid(c) ==
    /\ Reading(c)
    /\ Runs(Handler(c))
    /\ cmds_left' = cmds_left - 1
    /\ conn' = [conn EXCEPT ![c] = Closed]
    /\ SendBoth(c, Response("validation_error", "none"), RconExitResponse("invalid_command"))
    /\ UNCHANGED <<now, profiles, sched, scheduler_trigger, faults_left, reloads_left, starts>>
    /\ Put(objs, tasks)

\* ------------------------------------------------- frames on the wire
\* The nonces a command may carry: none, or a token.
Nonces == {None, 1}

\* A frame as the client wrote it: the type tag of the command it decodes to,
\* or "invalid" for a frame RconCommand.parse_raw rejects, and the nonce.
Frame(type, nonce) == [type |-> type, nonce |-> nonce]

Frames ==
    {Frame(type, nonce) :
        type \in {"ping", "echo", "exit", "wh_send", "list_profiles", "trigger_scheduler"},
        nonce \in Nonces}
      \cup {Frame("invalid", None)}

\* The end of the stream, which the reader meets behind the frames the client
\* wrote before it closed its side.
Eof == Frame("eof", None)

\* The client of c has not closed its side.
Writable(c) == IF inbox[c] = <<>> THEN TRUE ELSE inbox[c][Len(inbox[c])] # Eof

\* A client writes frame f: the stream reader of the connection buffers it
\* behind the frames it holds.
Write(c, f) ==
    /\ Alive
    /\ conn[c].pc # "closed"
    /\ Writable(c)
    /\ Len(inbox[c]) < MaxBuffer
    /\ Len(inbox[1]) + Len(inbox[2]) < cmds_left
    /\ inbox' = [inbox EXCEPT ![c] = Append(@, f)]
    /\ NoSend
    /\ UNCHANGED <<now, profiles, objs, tasks, sched, conn, scheduler_trigger, faults_left,
                   cmds_left, reloads_left, starts, over>>

\* reader.readuntil returns the oldest buffered frame.
readuntil(c) == Head(inbox[c])

\* The handler's loop takes the frame readuntil returns, decodes it and runs
\* the command's process up to its first await.
Takes(c, type) ==
    /\ inbox[c] # <<>>
    /\ readuntil(c).type = type
    /\ inbox' = [inbox EXCEPT ![c] = Tail(@)]

DispatchPing(c) == Takes(c, "ping") /\ Ping(c, readuntil(c).nonce)
DispatchEcho(c) == Takes(c, "echo") /\ Echo(c, readuntil(c).nonce)
DispatchExit(c) == Takes(c, "exit") /\ Exit(c, readuntil(c).nonce)
DispatchWebhookSend(c) == Takes(c, "wh_send") /\ WebhookSend(c, readuntil(c).nonce)
DispatchListProfiles(c) == Takes(c, "list_profiles") /\ ListProfiles(c, readuntil(c).nonce)
DispatchTrigger(c) == Takes(c, "trigger_scheduler") /\ TriggerScheduler(c, readuntil(c).nonce)
DispatchInvalid(c) == Takes(c, "invalid") /\ Invalid(c)

\* The client of c closes its side of the connection.
Disconnect(c) ==
    /\ Alive
    /\ conn[c].pc # "closed"
    /\ Writable(c)
    /\ Len(inbox[c]) < MaxBuffer
    /\ Len(inbox[1]) + Len(inbox[2]) < cmds_left
    /\ inbox' = [inbox EXCEPT ![c] = Append(@, Eof)]
    /\ NoSend
    /\ UNCHANGED <<now, profiles, objs, tasks, sched, conn, scheduler_trigger, faults_left,
                   cmds_left, reloads_left, starts, over>>

\* readuntil meets the end of the stream and raises IncompleteReadError: the
\* handler leaves its loop and closes the connection without a response.
DispatchEof(c) ==
    /\ Takes(c, "eof")
    /\ Reading(c)
    /\ Runs(Handler(c))
    /\ cmds_left' = cmds_left - 1
    /\ conn' = [conn EXCEPT ![c] = Closed]
    /\ NoSend
    /\ UNCHANGED <<now, profiles, sched, scheduler_trigger, faults_left, reloads_left, starts>>
    /\ Put(objs, tasks)

\* ------------------------------------------- SolverProfile.reschedule, exactly
\* datetime.time has microseconds and run_times is built from the lists of the
\* configuration file (datetime.time(*rt[0])), so a window may begin or end
\* within a second.  The instants below are counted in ticks, Subsecond of them
\* to the second; a day has DayLen seconds.
DayTicks == DayLen * Subsecond

\* datetime.datetime.combine(today, t).timestamp(): seconds, held as ticks.
timestamp(today, t) == today + t

\* int(x) of a timestamp: the whole seconds.
int(x) == x \div Subsecond

\* random.randint(a, b); r is the random draw.
randint(a, b, r) == a + (r % (b - a + 1))

\* datetime.datetime.fromtimestamp(s) of whole seconds s, in ticks.
fromtimestamp(s) == s * Subsecond

\* The midnight of the day of instant t, in ticks.
TodayTicks(t) == t - (t % DayTicks)

\* SolverProfile.reschedule for the window rt at the instant clock.
RescheduleExact(rt, clock, r) ==
    LET today  == TodayTicks(clock)
        ts_min == timestamp(today, rt.start)
        ts_max == timestamp(today, rt.end)
    IN  fromtimestamp(randint(int(ts_min), int(ts_max), r))

\* The draws of random.randint for a window of at most a day.
ExactDraws == 0..(DayLen - 1)

\* reschedule() is called on a profile that has no next_run.
RescheduleCall ==
    /\ objs[1].next_run = NoTime
    /\ \E r \in ExactDraws :
         objs' = [objs EXCEPT ![1].next_run = RescheduleExact(objs[1].run_times, now, r)]
    /\ UNCHANGED <<now, profiles, tasks, sched, conn, inbox, scheduler_trigger, faults_left,
                   cmds_left, reloads_left, starts, sent, over>>
\* ---------------------------------------------------------- the steps
\* The clock of the specifications that follow the program for a short while.
TickSoon == Tick /\ now < Soon

\* A step of task t.
TaskSteps(t) ==
    \/ SolverCancelled(t)
    \/ SolverFirstStep(t)
    \/ SolverStart(t)
    \/ SolverNotifyStart(t)
    \/ SolverWork(t)
    \/ SolverRecord(t)
    \/ SolverNotifyEnd(t)
    \/ MigratorCancelled(t)
    \/ MigratorStep(t)

TaskStep == \E t \in TaskIds : TaskSteps(t)

SchedStep == SchedWake \/ SchedWebhook \/ SchedTaskDone

\* The scheduler within one day: a pass awaits a task only when a profile that
\* has not run today is running, that is after midnight.
SchedStepSoon == SchedWake \/ SchedWebhook

\* A handler accepts a connection or resumes from an await.
HandlerStep == \E c \in Conns : Connect(c) \/ CancelWaitDone(c) \/ CommandWebhook(c)

\* The same for clients that send reload and trigger_scheduler only, which
\* await no notification of a profile command.
ReloadHandlerStep == \E c \in Conns : Connect(c) \/ CancelWaitDone(c)

\* The commands below arrive while the handler waits for a frame, and carry
\* no nonce.
TriggerCommands == \E c \in Conns : TriggerScheduler(c, None) /\ UNCHANGED inbox

CancelCommands ==
    \E c \in Conns, n \in Names :
       (CancelCmd(c, n, FALSE, None) \/ CancelCmd(c, n, TRUE, None)) /\ UNCHANGED inbox

RunNowCommands == \E c \in Conns, n \in Names : RunNow(c, n, None) /\ UNCHANGED inbox

\* The instants a reschedule command may name.
NewTimes == {NoTime, now - 1, now + 1, now + 2}

RescheduleCommands ==
    \E c \in Conns, n \in Names, new_time \in NewTimes :
       Reschedule(c, n, new_time, None) /\ UNCHANGED inbox

\* The reload command reading any configuration file, or none.
ReloadCommands ==
    \E c \in Conns :
       \/ ReloadFail(c, None) /\ UNCHANGED inbox
       \/ \E cfg \in Configs : Reload(c, cfg, None) /\ UNCHANGED inbox
       \/ ReloadWebhook(c)
       \/ ReloadReschedWebhook(c)

\* The reload command reading a file that has dropped profile 1.  The profile
\* it may add has no next_run, so the last loop of the reload awaits nothing.
RemovalCommands ==
    \E c \in Conns :
       \/ \E cfg \in {g \in Configs : g[1] = Absent} : Reload(c, cfg, None) /\ UNCHANGED inbox
       \/ ReloadWebhook(c)

\* ----------------------------------------------------- specifications
\* The scheduler and the solver tasks alone, over two days; the notifier and
\* the database may fail.
InitAuto == Boot(InitConfig, 0, 0, MaxFaults)
NextAuto == Tick \/ TaskStep \/ SchedStep
SpecAuto == InitAuto /\ [][NextAuto]_vars

\* The same under fairness: the scheduler, every task and the clock go on.
FairAuto ==
    /\ SpecAuto
    /\ WF_vars(Tick)
    /\ WF_vars(SchedStep)
    /\ \A t \in 1..MaxTasks : WF_vars(t \in TaskIds /\ TaskSteps(t))

\* Two days of one profile with clients that send cancel, force_cancel and
\* trigger_scheduler only.
InitDaily == Boot(OneConfig, MaxCmds, 0, MaxFaults)
NextDaily ==
    Tick \/ TaskStep \/ SchedStep \/ HandlerStep \/ TriggerCommands \/ CancelCommands
SpecDaily == InitDaily /\ [][NextDaily]_vars

\* One profile and two clients whose commands overlap within a day: run_now,
\* reschedule, cancel and a reload that drops the profile; the environment
\* does not fail.
InitRace == Boot(OneConfig, MaxCmds, MaxReloads, 0)
NextRace ==
    \/ TickSoon \/ TaskStep \/ SchedStepSoon \/ HandlerStep
    \/ RunNowCommands
    \/ \E c \in Conns, n \in Names :
          (Reschedule(c, n, now + 1, None) \/ CancelCmd(c, n, FALSE, None)) /\ UNCHANGED inbox
    \/ RemovalCommands
SpecRace == InitRace /\ [][NextRace]_vars

\* One command, a reload of any configuration or a trigger, with a failing
\* environment.
InitReload == Boot(InitConfig, MaxReloads, MaxReloads, MaxFaults)
NextReload ==
    TickSoon \/ TaskStep \/ SchedStepSoon \/ ReloadHandlerStep \/ TriggerCommands \/ ReloadCommands
SpecReload == InitReload /\ [][NextReload]_vars

ListCommands == \E c \in Conns : ListProfiles(c, None) /\ UNCHANGED inbox

\* One profile within a day and two clients that send three commands in all:
\* cancel, force_cancel, run_now, reschedule and list_profiles; the
\* environment does not fail.
InitCmd == Boot(OneConfig, MaxCmds + 1, 0, 0)
NextCmd ==
    \/ TickSoon \/ TaskStep \/ SchedStepSoon \/ HandlerStep
    \/ CancelCommands \/ RunNowCommands \/ RescheduleCommands \/ ListCommands
SpecCmd == InitCmd /\ [][NextCmd]_vars

\* The same for clients whose commands cancel no task.
ProtoHandlerStep == \E c \in Conns : Connect(c) \/ CommandWebhook(c)

\* The handlers of clients that write frames ahead of the responses.
Dispatch ==
    \E c \in Conns :
       \/ DispatchPing(c) \/ DispatchEcho(c) \/ DispatchExit(c) \/ DispatchWebhookSend(c)
       \/ DispatchListProfiles(c) \/ DispatchTrigger(c) \/ DispatchInvalid(c)
       \/ DispatchEof(c)

Writes == \E c \in Conns, f \in Frames : Write(c, f)

Disconnects == \E c \in Conns : Disconnect(c)

\* One profile within a day and two clients that write two frames in all,
\* with and without a nonce, one of them possibly malformed, or close their
\* side; a notification may fail.
InitProto == Boot(OneConfig, MaxCmds, 0, MaxFaults)
NextProto ==
    TickSoon \/ TaskStep \/ SchedStepSoon \/ ProtoHandlerStep \/ Writes \/ Disconnects \/ Dispatch
SpecProto == InitProto /\ [][NextProto]_vars

\* One profile with any window of one day, in ticks, at any instant of two
\* days, and one call of reschedule().
InitWindow ==
    /\ now \in 0..(2 * DayTicks - 1)
    /\ \E s \in 0..(DayTicks - 1), e \in 0..(DayTicks - 1) :
          /\ s <= e
          /\ objs = <<SolverProfile(1, RunTimes(s, e))>>
    /\ profiles = [n \in Names |-> IF n = 1 THEN 1 ELSE None]
    /\ tasks = <<>>
    /\ sched = [pc |-> "start", now |-> None, todo |-> <<>>, task |-> None]
    /\ conn = [c \in Conns |-> Closed]
    /\ inbox = [c \in Conns |-> <<>>]
    /\ sent = Nothing
    /\ scheduler_trigger = FALSE
    /\ faults_left = 0
    /\ cmds_left = 0
    /\ reloads_left = 0
    /\ starts = [n \in Names |-> NoTime]
    /\ over = NoOver
NextWindow == RescheduleCall
SpecWindow == InitWindow /\ [][NextWindow]_vars

\* A client connects.
Accepts == \E c \in Conns : Connect(c)

\* The scheduler and the solver tasks in a process that starts later in the
\* day, when the window of profile 1 may be over, with a client that sends
\* trigger_scheduler once.
InitLate == \E clock \in (DayLen + 1)..(DayLen + 3) : BootAt(clock, InitConfig, 1, 0, MaxFaults)
NextLate == Tick \/ TaskStep \/ SchedStep \/ Accepts \/ TriggerCommands
SpecLate == InitLate /\ [][NextLate]_vars

\* The clock of the first day.
TickDay == Tick /\ now < 2 * DayLen - 1

\* The reload command reading a file that gives both profiles a window.
SwapCommands ==
    \E c \in Conns :
       \/ \E cfg \in [Names -> Windows] : Reload(c, cfg, None) /\ UNCHANGED inbox
       \/ ReloadWebhook(c)
       \/ ReloadReschedWebhook(c)

\* One reload that changes windows in a process that starts in the second
\* half of the day, when the windows begin to end; the environment does not
\* fail.
InitSwap == BootAt(DayLen + 2, InitConfig, MaxReloads, MaxReloads, 0)
NextSwap == TickDay \/ TaskStep \/ SchedStepSoon \/ ReloadHandlerStep \/ SwapCommands
SpecSwap == InitSwap /\ [][NextSwap]_vars

\* One profile within a day and a client that sends trigger_scheduler once,
\* with a failing environment; under fairness the scheduler and every task
\* go on.
InitWake == Boot(OneConfig, 1, 0, MaxFaults)
NextWake == TickSoon \/ TaskStep \/ SchedStepSoon \/ Accepts \/ TriggerCommands
SpecWake == InitWake /\ [][NextWake]_vars
FairWake ==
    /\ SpecWake
    /\ WF_vars(SchedStepSoon)
    /\ \A t \in 1..MaxTasks : WF_vars(t \in TaskIds /\ TaskSteps(t))

\* shared/config.json without a profile.
NoConfig == [n \in Names |-> Absent]

\* The reload command reading a file that has profile 1 alone, as at the
\* start, or no profile.  A profile it adds has no next_run and one it keeps
\* has kept its window, so the last loop of the reload awaits nothing.
ReaddCommands ==
    \E c \in Conns :
       \/ \E cfg \in {NoConfig, OneConfig} : Reload(c, cfg, None) /\ UNCHANGED inbox
       \/ ReloadWebhook(c)

\* One profile within a day and two reloads, which may drop the profile and
\* add it again; the environment does not fail.
InitReadd == Boot(OneConfig, MaxReloads + 1, MaxReloads + 1, 0)
NextReadd == TickSoon \/ TaskStep \/ SchedStepSoon \/ ReloadHandlerStep \/ ReaddCommands
SpecReadd == InitReadd /\ [][NextReadd]_vars

\* ------------------------------------------------------------ properties
\* The unfinished solver tasks created for profile object o.
Unfinished(o) ==
    {t \in TaskIds : tasks[t].kind = "solver" /\ ~Done(tasks[t]) /\ tasks[t].profile = o}

\* C1: whatever the scheduler, the tasks and the commands of the connections
\* have done, every profile in the store has at most one unfinished solver
\* task.
C1_AtMostOneTask ==
    \A n \in Names : profiles[n] # None => Cardinality(Unfinished(profiles[n])) <= 1

\* C2: in every reachable state, every profile in the store with running set
\* has a task handle.
C2_RunningHasHandle ==
    \A n \in Names :
       profiles[n] # None /\ objs[profiles[n]].running => objs[profiles[n]].task # None

\* C3: without reschedule, run_now and reload, a workload of a profile never
\* starts on a day on which a workload of that profile has started already.
C3_OncePerDay ==
    [][\A t \in TaskIds :
          tasks[t].pc = "sleep" /\ tasks'[t].pc = "notify_start"
          => starts[objs[tasks[t].profile].profile_name] # Today(now)]_vars

\* A profile whose workload started and ended today, and a later pass of the
\* same day is over.
C3_Witness ==
    \E n \in Names :
       /\ profiles[n] # None
       /\ starts[n] = Today(now)
       /\ objs[profiles[n]].task = None /\ ~objs[profiles[n]].running
       /\ sched.pc = "idle" /\ sched.now > objs[profiles[n]].last_run
       /\ Today(sched.now) = Today(now)

\* A pass of the scheduler at this instant finds profile n in the store, not
\* run today, with its window still open (and ending before the clock does).
Eligible(n) ==
    /\ Alive /\ sched.pc # "start" /\ sched.now = now
    /\ profiles[n] # None
    /\ starts[n] # Today(now)
    /\ TimeOf(now) <= objs[profiles[n]].run_times.end
    /\ Today(now) + objs[profiles[n]].run_times.end <= MaxTime

Days == {Today(t) : t \in DayLen..MaxTime}

\* C4: under fairness and without commands, a profile that a pass finds in
\* the store, not run today and with its window open has its workload started
\* on that day, and a workload never starts before the profile's next_run.
C4_EventuallyStarted ==
    /\ \A n \in Names, d \in Days : (Eligible(n) /\ Today(now) = d) ~> (starts[n] = d)
    /\ [][\A t \in TaskIds :
             tasks[t].pc = "sleep" /\ tasks'[t].pc = "notify_start"
             => now >= objs[tasks[t].profile].next_run]_vars

\* The handler of c leaves cancel_task in this step, after having waited for
\* the task.
CancelReturns(c) == conn[c].pc = "cancel_wait" /\ conn'[c].pc # "cancel_wait"

\* C5: when cancel_task has waited for a task, the call returns (it does not
\* raise), a task that had set running has gone through its whole teardown,
\* and after a cancel or force_cancel the profile has no handle and is not
\* running; whatever state the task was in, a failed task included.
C5_CancelContract ==
    [][\A c \in Conns :
          CancelReturns(c) =>
             LET t == tasks[conn[c].task]
                 o == conn[c].profile
             IN  /\ conn'[c].pc # "closed"
                 /\ t.log # "none" => t.log = "closed" /\ t.result = "ok"
                 /\ conn[c].cmd \in {"cancel", "force_cancel"}
                    => objs'[o].task = None /\ ~objs'[o].running]_vars

\* C6: a solver task that has set running ends only at the end of its
\* teardown, with the profile's handle and running cleared; the environment
\* not failing in that step.
C6_TeardownCompletes ==
    [][\A t \in TaskIds :
          /\ tasks[t].kind = "solver" /\ tasks[t].log # "none"
          /\ ~Done(tasks[t]) /\ Done(tasks'[t])
          /\ faults_left' = faults_left
          => /\ tasks[t].pc = "notify_end" /\ ~tasks[t].must_cancel
             /\ objs'[tasks[t].profile].task = None
             /\ ~objs'[tasks[t].profile].running]_vars

\* C7: a reload whose load_config fails leaves the store, every profile and
\* every task as they were, does not set the trigger, answers with an error
\* that carries a detail, and keeps the connection open.
C7_ReloadFailure ==
    [][cmds_left' # cmds_left /\ faults_left' # faults_left
       => /\ profiles' = profiles /\ objs' = objs /\ tasks' = tasks
          /\ scheduler_trigger' = scheduler_trigger
          /\ sent'.resp.type = "error" /\ sent'.resp.command_type = "reload"
          /\ sent'.resp.detail
          /\ conn'[sent'.conn].pc = "idle"]_vars

\* The error of a failed load has just been sent, with a task unfinished.
C7_Witness ==
    /\ sent.resp.type = "error" /\ sent.resp.command_type = "reload" /\ sent.resp.detail
    /\ conn[sent.conn].pc = "idle"
    /\ \E n \in Names : profiles[n] # None /\ Unfinished(profiles[n]) # {}

\* The handler of c sends the response of a completed reload in this step.
ReloadResponds(c) == sent'.conn = c /\ sent'.resp.type = "reload"

\* The removed profiles of the reload of c that are running: their objects.
RemovedRunning(c) ==
    {n \in Names : /\ conn[c].old_profiles[n] # None
                   /\ conn[c].new_profiles[n] = None
                   /\ objs[conn[c].old_profiles[n]].running
                   /\ objs[conn[c].old_profiles[n]].task # None}

ReloadSteps(c) ==
    conn'[c] # conn[c] /\ (conn[c].cmd = "reload" \/ conn'[c].cmd = "reload")

Kept(h) == {n \in Names : h.old_profiles[n] # None /\ h.new_profiles[n] # None}

\* The run state that a reload carries over.
RunState(p) ==
    [last_run |-> p.last_run, next_run |-> p.next_run, running |-> p.running,
     last_log |-> p.last_log]

ReloadCopies(c) == ReloadSteps(c) /\ conn[c].pc # "reload_wh" /\ conn'[c].pc = "reload_wh"

\* The new object has no handle when the old one has none, a migrator that
\* awaits the old object's task when the profile is deferred, and the old
\* object's handle otherwise.
HandleCopied(h, os, ts, n) ==
    LET old == os[h.old_profiles[n]]
        new == os[h.new_profiles[n]]
    IN  IF old.task = None THEN new.task = None
        ELSE IF n \in h.deferred
          THEN /\ new.task # None
               /\ ts[new.task].kind = "migrator"
               /\ ~Done(ts[new.task])
               /\ ts[new.task].inner = old.task
               /\ ts[new.task].profile = h.new_profiles[n]
        ELSE new.task = old.task

NoReload == \A c \in Conns : conn[c].cmd # "reload"

\* The tasks of profile n that have not reached the start of the workload.
PendingTasks(n) ==
    {t \in TaskIds : /\ tasks[t].kind = "solver"
                     /\ tasks[t].pc \in {"new", "sleep"}
                     /\ objs[tasks[t].profile].profile_name = n}

\* C10: once a reload has completed, a profile that it has removed has no
\* pending task, and no task starts the workload of a profile that is not in
\* the store.
C10_RemovedNeverStarts ==
    /\ [][\A n \in Names : profiles'[n] = None /\ NoReload' => PendingTasks(n)' = {}]_vars
    /\ [][\A t \in TaskIds :
             /\ tasks[t].kind = "solver"
             /\ tasks[t].pc = "sleep"
             /\ tasks'[t].pc = "notify_start"
             /\ NoReload
             => profiles[objs[tasks[t].profile].profile_name] # None]_vars

\* C11: a reschedule command never goes on for a profile that is running,
\* and a reschedule that is answered with an error changes no profile and no
\* task.
C11_RescheduleRunning ==
    /\ [][\A c \in Conns :
             conn[c].pc = "idle" /\ conn'[c].cmd = "reschedule"
             => ~objs[conn'[c].profile].running]_vars
    /\ [][\A c \in Conns :
             /\ conn[c].pc = "idle" /\ sent'.conn = c
             /\ sent'.resp.type = "error" /\ sent'.resp.command_type = "reschedule"
             => objs' = objs /\ tasks' = tasks /\ profiles' = profiles]_vars

\* The unfinished solver tasks of profile object o among ts.
Live(ts, o) ==
    {t \in DOMAIN ts : ts[t].kind = "solver" /\ ts[t].profile = o /\ ~Done(ts[t])}

\* C12: a run_now that goes on has found the profile not running; when the
\* profile has no handle the same step sets next_run to the current time and
\* creates exactly one task, which is the profile's handle, without a pass of
\* the scheduler; and a run_now that is answered with an error changes no
\* profile and no task.
C12_RunNow ==
    /\ [][\A c \in Conns :
             conn[c].pc = "idle" /\ conn'[c].cmd = "run_now"
             => LET o == conn'[c].profile IN
                /\ ~objs[o].running
                /\ objs[o].task = None
                   => /\ objs'[o].next_run = now
                      /\ sched' = sched
                      /\ Cardinality(Live(tasks', o) \ Live(tasks, o)) = 1
                      /\ objs'[o].task \in Live(tasks', o) \ Live(tasks, o)]_vars
    /\ [][\A c \in Conns :
             /\ conn[c].pc = "idle" /\ sent'.conn = c
             /\ sent'.resp.type = "error" /\ sent'.resp.command_type = "run_now"
             => objs' = objs /\ tasks' = tasks /\ profiles' = profiles]_vars

\* A cancel or force_cancel of profile n has just been answered with success.
CancelAnswered(n) ==
    /\ sent.resp.type = "success"
    /\ sent.resp.command_type \in {"cancel", "force_cancel"}
    /\ sent.profile = n

\* A list_profiles command is answered in this step.
Lists == sent'.resp.type = "list_profiles"

\* C13 as stated: a listing that follows the success of a cancel or
\* force_cancel at once shows the profile without a task and not running.
C13_ListAfterCancel ==
    [][\A n \in Names :
          CancelAnswered(n) /\ Lists /\ sent'.resp.profiles[n].listed
          => /\ ~sent'.resp.profiles[n].task_created
             /\ ~sent'.resp.profiles[n].running]_vars

\* The handler of c decodes a command in this step and answers it with an
\* error.
AnswersError(c) ==
    /\ conn[c].pc = "idle"
    /\ cmds_left' # cmds_left
    /\ sent'.conn = c
    /\ sent'.resp.type = "error"

\* C14: a reschedule, run_now or unforced cancel never goes on for a running
\* profile and a reschedule never goes on with a time in the past; a command
\* answered with an error writes that one response, which names the command,
\* changes no profile and no task, and leaves the connection open.
C14_CommandErrors ==
    /\ [][\A c \in Conns :
             conn[c].pc = "idle" /\ conn'[c].cmd \in {"reschedule", "run_now", "cancel"}
             => /\ ~objs[conn'[c].profile].running
                /\ conn'[c].cmd = "reschedule" => conn'[c].next_run >= now]_vars
    /\ [][\A c \in Conns :
             AnswersError(c)
             => /\ sent'.first = Nothing.first
                /\ sent'.resp.command_type \in {"reschedule", "run_now", "cancel", "force_cancel"}
                /\ objs' = objs /\ tasks' = tasks /\ profiles' = profiles
                /\ conn'[c] = Waiting]_vars

\* Everything but the connections, their buffers and the last response.
Rest == <<now, profiles, objs, tasks, sched, scheduler_trigger, faults_left, reloads_left, starts>>

\* The handler of c takes a frame that does not decode.
TakesInvalid(c) ==
    conn[c].pc = "idle" /\ inbox[c] # <<>> /\ readuntil(c).type = "invalid" /\ inbox'[c] = Tail(inbox[c])

\* C15: the step that takes a frame that does not decode writes a
\* validation_error response and closes the connection, changing no profile,
\* no task, nothing of the scheduler and no other connection; and a closed
\* connection takes no frame.
C15_InvalidFrame ==
    /\ [][\A c \in Conns :
             TakesInvalid(c)
             => /\ sent'.conn = c
                /\ sent'.first.type = "validation_error"
                /\ sent'.resp = RconExitResponse("invalid_command")
                /\ conn'[c].pc = "closed"
                /\ \A d \in Conns \ {c} : conn'[d] = conn[d] /\ inbox'[d] = inbox[d]
                /\ Rest' = Rest]_vars
    /\ [][\A c \in Conns : conn[c].pc = "closed" => inbox'[c] = inbox[c] \/ inbox'[c] = <<>>]_vars

\* Connection 1 has just been closed by a frame that did not decode, with a
\* further frame in its buffer, while connection 2 is open and a task exists.
C15_Witness ==
    /\ sent.conn = 1 /\ sent.first.type = "validation_error"
    /\ conn[1].pc = "closed"
    /\ inbox[1] # <<>>
    /\ conn[2].pc = "idle"
    /\ \E t \in TaskIds : ~Done(tasks[t])

\* The command the handler of c is processing fails in this step: its
\* notification raises, or the task cancel_task awaited has ended with an
\* exception.
DispatchFails(c) ==
    \/ conn[c].pc = "wh" /\ faults_left' # faults_left /\ conn'[c] # conn[c]
    \/ /\ conn[c].pc = "cancel_wait" /\ conn'[c] # conn[c]
       /\ tasks[conn[c].task].result = "exc"

\* The handler of c writes the exit response with reason server_error.
ServerErrorSent(c) == sent'.conn = c /\ sent'.resp = RconExitResponse("server_error")

\* C16: a failure of the command a handler is processing is answered in the
\* same step with exit/server_error; the step that writes this response
\* closes that connection, leaves every other connection and the scheduler as
\* they are and ends no task.
C16_ServerError ==
    /\ [][\A c \in Conns : DispatchFails(c) => ServerErrorSent(c)]_vars
    /\ [][\A c \in Conns :
             ServerErrorSent(c)
             => /\ conn[c].pc # "closed" /\ conn'[c].pc = "closed"
                /\ sent'.first = Nothing.first
                /\ \A d \in Conns \ {c} : conn'[d] = conn[d]
                /\ sched' = sched /\ scheduler_trigger' = scheduler_trigger
                /\ \A t \in TaskIds : ~Done(tasks[t]) => t \in DOMAIN tasks' /\ tasks'[t] = tasks[t]]_vars

\* Connection 1 has just been closed with server_error while connection 2 is
\* in the middle of a command, the scheduler waits for its next pass and a
\* task is unfinished.
C16_Witness ==
    /\ sent.conn = 1 /\ sent.resp = RconExitResponse("server_error")
    /\ conn[1].pc = "closed"
    /\ conn[2].pc \in {"wh", "cancel_wait"}
    /\ sched.pc = "idle"
    /\ \E t \in TaskIds : ~Done(tasks[t])

\* The handler of c takes a frame from its buffer in this step.
Decodes(c) == conn[c].pc # "closed" /\ inbox[c] # <<>> /\ inbox'[c] = Tail(inbox[c])

\* The type of the response that answers a command of the given type at once.
Answer(type) ==
    CASE type = "ping" -> "pong"
      [] type = "echo" -> "message"
      [] type = "list_profiles" -> "list_profiles"
      [] type = "trigger_scheduler" -> "success"
      [] OTHER -> "exit"

\* C17: a handler takes a frame only while no command of its connection is
\* in progress; the frame it takes is the oldest one buffered, the frames
\* behind it keep their order and a new frame goes behind them; the step
\* that takes a frame writes the response to it or leaves the command in
\* progress, and a command in progress ends by writing a response.  The end
\* of the stream is no frame: it may only follow the frames.
C17_InOrder ==
    /\ [][\A c \in Conns : Decodes(c) => conn[c].pc = "idle"]_vars
    /\ [][\A c \in Conns :
             Decodes(c) /\ Head(inbox[c]) # Eof
             => LET f == Head(inbox[c]) IN
                IF f.type = "wh_send"
                  THEN conn'[c].pc = "wh" /\ conn'[c].cmd = "wh_send" /\ sent'.conn # c
                  ELSE sent'.conn = c /\ sent'.resp.type = Answer(f.type)
                       /\ conn'[c].pc \in {"idle", "closed"}]_vars
    /\ [][\A c \in Conns :
             inbox'[c] # inbox[c]
             => \/ Decodes(c)
                \/ conn[c].pc # "closed" /\ \E f \in Frames \cup {Eof} : inbox'[c] = Append(inbox[c], f)
                \/ conn[c].pc = "closed" /\ inbox'[c] = <<>>]_vars
    /\ [][\A c \in Conns : conn[c].pc = "wh" /\ conn'[c].pc # "wh" => sent'.conn = c]_vars

\* The first of two frames buffered on connection 1 has been answered, which
\* took an await, and the second is still in the buffer.
C17_Witness ==
    /\ sent.conn = 1 /\ sent.resp.command_type = "wh_send"
    /\ conn[1].pc = "idle"
    /\ inbox[1] # <<>>
    /\ cmds_left = MaxCmds - 1

\* C18: a response written by the step that takes a command with a nonce
\* carries that nonce, and so does the response that ends a command in
\* progress that has a nonce.
C18_NonceEchoed ==
    /\ [][\A c \in Conns :
             Decodes(c) /\ Head(inbox[c]).nonce # None /\ sent'.conn = c
             => sent'.resp.nonce = Head(inbox[c]).nonce]_vars
    /\ [][\A c \in Conns :
             conn[c].pc = "wh" /\ conn[c].nonce # None /\ sent'.conn = c
             => sent'.resp.nonce = conn[c].nonce]_vars

\* The workload of solver task t raises in this step.
WorkloadRaises(t) ==
    /\ tasks[t].kind = "solver" /\ tasks[t].pc = "work"
    /\ tasks'[t].report = "crashed"

\* C19: the step in which the workload of a task raises records the outcome
\* crashed, leaves the task running its teardown, and changes no other
\* profile and nothing of the scheduler; and a task whose workload raised
\* ends only by the step that clears the handle and the running flag of its
\* profile.
C19_WorkloadContained ==
    /\ [][\A t \in TaskIds :
             WorkloadRaises(t)
             => /\ tasks'[t].pc = "record" /\ ~Done(tasks'[t])
                /\ \A o \in DOMAIN objs : o # tasks[t].profile => objs'[o] = objs[o]
                /\ sched' = sched]_vars
    /\ [][\A t \in TaskIds :
             /\ tasks[t].kind = "solver" /\ tasks[t].report = "crashed"
             /\ ~Done(tasks[t]) /\ Done(tasks'[t])
             => /\ objs'[tasks[t].profile].task = None
                /\ ~objs'[tasks[t].profile].running]_vars

\* The database raises in the teardown of solver task t in this step.
RecordFails(t) ==
    /\ tasks[t].kind = "solver" /\ tasks[t].pc = "record" /\ ~tasks[t].must_cancel
    /\ faults_left' # faults_left
    /\ tasks'[t] # tasks[t]

\* C20: when the database raises in the teardown of a task, the task does not
\* end there but goes on to its outcome notification, after which it clears
\* the handle and the running flag of its profile.
C20_RecordFailure ==
    [][\A t \in TaskIds :
          RecordFails(t)
          => /\ ~Done(tasks'[t])
             /\ tasks'[t].pc = "notify_end"]_vars

\* The pcs at which Scheduler.run awaits webhook.send_message.
SchedNotifies == {"wh_skip", "wh_bug", "wh_unset", "wh_crash", "wh_sched"}

\* A send of the notifier fails in this step.
SendFails == faults_left' # faults_left

\* C21: when a send of the notifier fails, its caller goes on: the scheduler
\* goes on with its pass, a solver task that awaited its start notification
\* goes on to the workload, and a handler that awaited the notification of a
\* command answers the command and keeps its connection open.
C21_NotifierContained ==
    /\ [][sched.pc \in SchedNotifies /\ SendFails /\ sched' # sched
          => sched'.pc # "dead"]_vars
    /\ [][\A t \in TaskIds :
             /\ tasks[t].kind = "solver" /\ tasks[t].pc = "notify_start"
             /\ SendFails /\ tasks'[t] # tasks[t]
             => tasks'[t].pc = "work"]_vars
    /\ [][\A c \in Conns :
             conn[c].pc = "wh" /\ SendFails /\ conn'[c] # conn[c]
             => conn'[c].pc = "idle" /\ sent'.conn = c /\ sent'.resp.type # "exit"]_vars

\* C22: no step in which the environment does not fail ends the scheduling
\* loop: whatever a workload, a command or a cancellation does, Scheduler.run
\* is still in its loop afterwards.
C22_LoopGoesOn ==
    [][sched.pc # "dead" /\ ~SendFails => sched'.pc # "dead"]_vars

\* C23: the instant reschedule() assigns to a profile whose window begins no
\* later than it ends lies on the day of the call, between the beginning and
\* the end of the window.
C23_InWindow ==
    objs[1].next_run # NoTime /\ objs[1].run_times.start <= objs[1].run_times.end
    => /\ TodayTicks(objs[1].next_run) = TodayTicks(now)
       /\ TodayTicks(now) + objs[1].run_times.start <= objs[1].next_run
       /\ objs[1].next_run <= TodayTicks(now) + objs[1].run_times.end

\* The scheduler's pass arrives at the missed-window branch for profile
\* object o in this step, and awaits the notification.
MeetsMissed(o) ==
    sched'.pc = "wh_skip" /\ sched' # sched /\ Head(sched'.todo) = o

\* The scheduler's pass draws next_run for profile object o in this step.
Schedules(o) ==
    sched'.pc = "wh_sched" /\ sched' # sched /\ Head(sched'.todo) = o

\* C24: a pass takes the missed-window branch for a profile that has not run
\* today, has no next_run and whose window ended before the time of the pass;
\* the branch sets last_run to the time of the pass, leaves next_run absent,
\* creates no task and awaits one notification; a pass draws next_run only
\* for a profile whose window has not ended; and no step gives a next_run to
\* a profile that has none and whose last_run is today.
C24_MissedWindow ==
    /\ [][\A o \in DOMAIN objs :
             MeetsMissed(o)
             => /\ objs[o].last_run < Today(sched'.now)
                /\ objs[o].next_run = NoTime
                /\ objs[o].run_times.end < TimeOf(sched'.now)
                /\ objs'[o].last_run = sched'.now
                /\ objs'[o].next_run = NoTime
                /\ objs'[o].task = objs[o].task
                /\ tasks' = tasks]_vars
    /\ [][\A o \in DOMAIN objs :
             Schedules(o) => objs[o].run_times.end >= TimeOf(sched'.now)]_vars
    /\ [][\A o \in DOMAIN objs :
             objs[o].last_run >= Today(now) /\ objs[o].next_run = NoTime
             => objs'[o].next_run = NoTime]_vars

\* The pass that took the missed-window branch for profile 1 is over and so
\* is the pass of the same day that the client's trigger_scheduler began; the
\* profile has no next_run and no task, and profile 2 has been scheduled.
C24_Witness ==
    /\ sched.pc = "idle"
    /\ starts[1] # Today(now)
    /\ objs[profiles[1]].last_run >= Today(now)
    /\ cmds_left = 0 /\ ~scheduler_trigger
    /\ objs[profiles[1]].next_run = NoTime
    /\ objs[profiles[1]].task = None
    /\ objs[profiles[2]].task # None

\* The handler of c takes a cancel (or force_cancel) command in this step and
\* goes on with it, for profile object conn'[c].profile.
CancelGoesOn(c) ==
    conn[c].pc = "idle" /\ conn'[c].cmd \in {"cancel", "force_cancel"}

\* C25: a cancel or force_cancel that goes on sets last_run to now and
\* next_run to absent in the same step and requests the cancellation of the
\* profile's task if it has an unfinished one; an unforced cancel never goes
\* on for a running profile; and no step of the scheduler draws a next_run or
\* creates a task for a profile that has no next_run and whose last_run is
\* today.
C25_Cancel ==
    /\ [][\A c \in Conns :
             CancelGoesOn(c)
             => LET o == conn'[c].profile IN
                /\ objs'[o].last_run = now
                /\ objs'[o].next_run = NoTime
                /\ \A t \in Live(tasks, o) : t = objs[o].task => tasks'[t].must_cancel]_vars
    /\ [][\A c \in Conns :
             CancelGoesOn(c) /\ conn'[c].cmd = "cancel"
             => ~objs[conn'[c].profile].running]_vars
    /\ [][\A o \in DOMAIN objs :
             /\ sched' # sched
             /\ objs[o].last_run >= Today(now) /\ objs[o].next_run = NoTime
             => /\ objs'[o].next_run = NoTime
                /\ Live(tasks', o) \subseteq Live(tasks, o)]_vars

\* The handler of c has done with the cancellation and the launch of its
\* reschedule command in this step, and awaits the command's notification.
RescheduleSettles(c) ==
    /\ conn[c].pc \in {"idle", "cancel_wait"}
    /\ conn'[c].pc = "wh" /\ conn'[c].cmd = "reschedule"

\* C26: when a reschedule command has cancelled and launched what it had to,
\* the profile's next_run is the new time of the command, no task of the
\* profile is unfinished but the one its handle names, and the profile has a
\* handle exactly when the new time is less than one scheduling interval
\* away; and the response reports the new time of the command.
C26_Reschedule ==
    /\ [][\A c \in Conns :
             RescheduleSettles(c)
             => LET o == conn'[c].profile IN
                /\ objs'[o].next_run = conn'[c].next_run
                /\ Live(tasks', o) \subseteq {objs'[o].task}
                /\ objs'[o].task # None <=> conn'[c].next_run - now < ScheduleEvery]_vars
    /\ [][\A c \in Conns :
             sent'.conn = c /\ sent'.resp.type = "profile_rescheduled"
             => sent'.resp.new_time = conn[c].next_run]_vars

\* The handler of c takes a command of the given type in this step.
TakesCommand(c, type) ==
    conn[c].pc = "idle" /\ inbox[c] # <<>> /\ inbox'[c] = Tail(inbox[c])
      /\ Head(inbox[c]).type = type

\* C27: the step that takes a ping, echo, list_profiles or trigger_scheduler
\* command leaves the store, every profile and every task as they are;
\* trigger_scheduler sets the wake signal and the other three leave it; and
\* the response to list_profiles lists exactly the profiles of the store,
\* each with its last_run, next_run, running and last_log, and with
\* task_created true exactly when it has a handle.
C27_ReadOnlyCommands ==
    /\ [][\A c \in Conns :
             \A type \in {"ping", "echo", "list_profiles", "trigger_scheduler"} :
                TakesCommand(c, type)
                => /\ profiles' = profiles /\ objs' = objs /\ tasks' = tasks
                   /\ scheduler_trigger' = (scheduler_trigger \/ type = "trigger_scheduler")]_vars
    /\ [][\A c \in Conns :
             TakesCommand(c, "list_profiles")
             => /\ sent'.conn = c /\ sent'.resp.type = "list_profiles"
                /\ \A n \in Names :
                     LET l == sent'.resp.profiles[n] IN
                     /\ l.listed <=> profiles[n] # None
                     /\ profiles[n] # None
                        => LET p == objs[profiles[n]] IN
                           /\ l.last_run = p.last_run /\ l.next_run = p.next_run
                           /\ l.running = p.running /\ l.last_log = p.last_log
                           /\ l.task_created <=> p.task # None]_vars

\* A listing has just been sent that shows profile 1 with a task that has
\* not started, and does not list profile 2.
C27_Witness ==
    /\ sent.resp.type = "list_profiles"
    /\ sent.resp.profiles[1].listed
    /\ sent.resp.profiles[1].task_created /\ ~sent.resp.profiles[1].running
    /\ ~sent.resp.profiles[2].listed
    /\ objs[profiles[1]].task # None

\* C28: the step that accepts a connection sends the greeting and reads no
\* frame; the step that takes an exit command writes one exit response and
\* closes the connection; a connection is closed only by the step that
\* writes an exit response on it or by the one that meets the end of the
\* stream; and while a connection is closed none of its frames is taken and
\* no response is written on it but the greeting of the next connection.
C28_ConnectionStates ==
    /\ [][\A c \in Conns :
             conn[c].pc = "closed" /\ conn'[c].pc # "closed"
             => /\ sent'.conn = c /\ sent'.resp = Response("message", "none")
                /\ sent'.first = Nothing.first
                /\ conn'[c].pc = "idle"
                /\ inbox'[c] = <<>> /\ cmds_left' = cmds_left]_vars
    /\ [][\A c \in Conns :
             TakesCommand(c, "exit")
             => /\ sent'.conn = c /\ sent'.resp = RconExitResponse("user_request")
                /\ sent'.first = Nothing.first
                /\ conn'[c].pc = "closed"]_vars
    /\ [][\A c \in Conns :
             conn[c].pc # "closed" /\ conn'[c].pc = "closed"
             => \/ sent'.conn = c /\ sent'.resp.type = "exit"
                \/ TakesCommand(c, "eof") /\ sent'.conn = None]_vars
    /\ [][\A c \in Conns :
             conn[c].pc = "closed" /\ conn'[c].pc = "closed"
             => /\ sent'.conn # c
                /\ inbox'[c] = inbox[c]
                /\ conn'[c] = conn[c]]_vars

\* Connection 1 has just been closed by an exit command with a further frame
\* in its buffer, while connection 2 is open.
C28_Witness ==
    /\ sent.conn = 1 /\ sent.resp = RconExitResponse("user_request")
    /\ conn[1].pc = "closed"
    /\ inbox[1] # <<>>
    /\ conn[2].pc # "closed"

\* The handler of c is suspended in cancel_task on profile object o, between
\* the check of its command and the writes that follow the await.
MidCommand(c, o) ==
    /\ conn[c].pc = "cancel_wait"
    /\ conn[c].cmd \in {"reschedule", "run_now", "cancel", "force_cancel"}
    /\ conn[c].profile = o

\* C29: while a handler is suspended between the check and the last write of
\* its command on a profile, no other handler takes a command that goes on
\* for the same profile, and no step of the scheduler changes the profile.
C29_OneWriter ==
    [][\A c \in Conns : \A o \in DOMAIN objs :
          MidCommand(c, o)
          => /\ \A d \in Conns \ {c} :
                  ~(conn[d].pc = "idle" /\ conn'[d].pc # "idle" /\ conn'[d].profile = o)
             /\ sched' # sched => objs'[o] = objs[o]]_vars

\* C30: the step in which a task wakes from its sleep clears next_run, sets
\* last_run to now and sets running, and a task comes to its workload only
\* after that step; a profile that is running has no next_run; and no step
\* assigns a next_run to a profile that is running.
C30_StartClearsNextRun ==
    /\ [][\A t \in TaskIds :
             tasks[t].kind = "solver" /\ tasks[t].pc = "sleep" /\ tasks'[t].pc # "sleep"
               /\ ~Done(tasks'[t])
             => LET o == tasks[t].profile IN
                /\ tasks'[t].pc = "notify_start"
                /\ objs'[o].next_run = NoTime
                /\ objs'[o].last_run = now
                /\ objs'[o].running]_vars
    /\ [][\A t \in TaskIds :
             tasks[t].kind = "solver" /\ tasks[t].pc # "work" /\ tasks'[t].pc = "work"
             => tasks[t].pc = "notify_start" /\ objs[tasks[t].profile].running]_vars
    /\ [](\A o \in DOMAIN objs : objs[o].running => objs[o].next_run = NoTime)
    /\ [][\A o \in DOMAIN objs :
             objs[o].running /\ objs'[o].running
             => objs'[o].next_run \in {objs[o].next_run, NoTime}]_vars

\* The migrator tasks that have not finished.
Migrators == {t \in TaskIds : tasks[t].kind = "migrator" /\ ~Done(tasks[t])}

\* C31: while the task a migrator awaits is unfinished, the new profile
\* object the migrator was created for is running and has a handle; and when
\* a migrator that has waited for the old task ends, however the old task
\* has ended, the new object has no handle and is not running, unless a
\* cancel_task that awaits the migrator is about to clear them.
C31_MigratorClears ==
    /\ [](\A t \in Migrators :
             ~Done(tasks[tasks[t].inner])
             => objs[tasks[t].profile].running /\ objs[tasks[t].profile].task # None)
    /\ [][\A t \in Migrators :
             tasks[t].pc = "await" /\ Done(tasks'[t])
             => \/ /\ objs'[tasks[t].profile].task = None
                   /\ ~objs'[tasks[t].profile].running
                \/ \E c \in Conns : conn'[c].pc = "cancel_wait" /\ conn'[c].task = t]_vars

\* The instant the pass in progress, or the pass that begins in this step,
\* has read as its now.
PassNow == IF sched.pc \in {"start", "idle"} THEN now ELSE sched.now

\* The scheduler runs the launch phase of a pass in this step.
Launches ==
    /\ sched'.pc = "idle"
    /\ sched' # sched \/ (scheduler_trigger /\ ~scheduler_trigger')

\* The launch phase creates a task for profile object o in this step.
Launched(o) == objs'[o].task # None /\ objs'[o].task \notin TaskIds

\* C32: the launch phase of a pass creates a task for a profile of the store
\* only if its next_run is set and at most one interval after the pass's now,
\* and then sets its last_run to the pass's now; a profile it creates no task
\* for has no next_run, a next_run further away, or a handle already; and
\* while the task of a profile waits for its start time no step of the
\* scheduler changes the profile's next_run or handle or cancels the task.
C32_Launch ==
    /\ [][Launches =>
             \A n \in Names :
                profiles[n] # None =>
                   LET o == profiles[n]
                       p == objs'[o]
                   IN  IF Launched(o)
                         THEN /\ p.next_run # NoTime
                              /\ p.next_run - PassNow <= ScheduleEvery
                              /\ p.last_run = PassNow
                              /\ objs[o].task = None \/ Done(tasks[objs[o].task])
                              /\ tasks'[p.task].kind = "solver"
                              /\ tasks'[p.task].profile = o
                              /\ tasks'[p.task].pc = "new"
                         ELSE \/ p.next_run = NoTime
                              \/ p.next_run - PassNow > ScheduleEvery
                              \/ p.task # None]_vars
    /\ [][\A t \in TaskIds :
             /\ tasks[t].kind = "solver" /\ tasks[t].pc \in {"new", "sleep"}
             /\ objs[tasks[t].profile].task = t
             /\ sched' # sched
             => /\ objs'[tasks[t].profile].next_run = objs[tasks[t].profile].next_run
                /\ objs'[tasks[t].profile].task = t
                /\ tasks'[t] = tasks[t]]_vars

\* A pass has created a task for a profile due in exactly one interval, and
\* a later pass has found the task still waiting.
C32_Witness ==
    \E t \in TaskIds :
       /\ tasks[t].kind = "solver" /\ tasks[t].pc = "sleep"
       /\ objs[tasks[t].profile].task = t
       /\ objs[tasks[t].profile].next_run - objs[tasks[t].profile].last_run = ScheduleEvery
       /\ sched.pc = "idle" /\ sched.now > objs[tasks[t].profile].last_run

\* The pass meets an overrun in this step: it cancels the task of the profile
\* at the head of its list and begins to wait for it.
MeetsOverrun == sched.pc # "await_task" /\ sched'.pc = "await_task"

\* C33: a pass begins to wait for a task only after it has requested the
\* cancellation of the unfinished task of a running profile whose last_run is
\* before today; the wait ends when the task has finished and the pass goes
\* on; unless the notification that follows fails, the same pass then draws
\* a next_run on today for the profile; and a task is created for a profile
\* only when every earlier task of the profile has finished.
C33_Overrun ==
    /\ [][MeetsOverrun =>
             LET o == Head(sched'.todo)
                 t == sched'.task
             IN  /\ objs[o].last_run < Today(PassNow)
                 /\ objs[o].running /\ objs[o].task = t
                 /\ ~Done(tasks[t]) /\ tasks'[t].must_cancel]_vars
    /\ [][sched.pc = "await_task" /\ sched' # sched
          => /\ Done(tasks[sched.task])
             /\ sched'.pc \in {"wh_unset", "wh_crash"}]_vars
    /\ [][/\ sched.pc \in {"wh_unset", "wh_crash"}
          /\ sched' # sched
          /\ faults_left' = faults_left
          => /\ sched'.pc = "wh_sched"
             /\ Today(objs'[Head(sched.todo)].next_run) = Today(now)]_vars
    /\ [][\A o \in DOMAIN objs :
             Launched(o)
             => \A t \in TaskIds : tasks[t].kind = "solver" /\ tasks[t].profile = o
                                   => Done(tasks[t])]_vars

\* Profile n of the store is running and its handle is a finished task.
Stale(n) ==
    /\ profiles[n] # None
    /\ objs[profiles[n]].running
    /\ objs[profiles[n]].task # None
    /\ Done(tasks[objs[profiles[n]].task])

\* A pass in progress has profile n, not run on the day of the pass, in the
\* part of the store it has still to go through.
Ahead(n) ==
    /\ sched.pc \in {"wh_skip", "wh_bug", "wh_unset", "wh_crash", "wh_sched", "await_task"}
    /\ \E i \in DOMAIN sched.todo : sched.todo[i] = profiles[n]
    /\ objs[profiles[n]].last_run < Today(sched.now)

\* C34: under fairness, a profile that is running with a finished task as
\* its handle, and that a pass in progress has still to go through, gets its
\* handle or its running flag cleared; and a pass that has found a profile
\* running without a handle clears the flag when its notification returns.
C34_SelfHealing ==
    /\ \A n \in Names : (Stale(n) /\ Ahead(n)) ~> ~Stale(n)
    /\ [][/\ sched.pc = "wh_bug"
          /\ sched' # sched
          /\ faults_left' = faults_left
          => ~objs'[Head(sched.todo)].running]_vars

\* The time of day the reload of c has read, or reads in this step, for its
\* last loop.
ReloadNow(c) == IF conn[c].pc = "reload_wh" THEN TimeOf(now) ELSE conn[c].now

\* The next_run of p lies in the window of p.
InWindow(p) ==
    p.run_times.start <= TimeOf(p.next_run) /\ TimeOf(p.next_run) <= p.run_times.end

C36_WakeNotLost ==
    /\ scheduler_trigger ~> ~scheduler_trigger
    /\ [][scheduler_trigger /\ ~scheduler_trigger'
          => sched.pc = "idle" /\ sched'.now = now /\ now' = now]_vars
    /\ [][scheduler_trigger /\ sched.pc = "idle" => now' = now]_vars

\* C37: when a handler resumes in cancel_task and the profile's handle is no
\* longer the task it has waited for, the step leaves that handle in place;
\* and every unfinished solver task of a profile in the store is the
\* profile's handle.
C37_NoOrphan ==
    /\ [][\A c \in Conns :
             /\ CancelReturns(c)
             /\ objs[conn[c].profile].task # None
             /\ objs[conn[c].profile].task # conn[c].task
             => objs'[conn[c].profile].task = objs[conn[c].profile].task]_vars
    /\ [](\A n \in Names :
             profiles[n] # None
             => \A t \in Unfinished(profiles[n]) : objs[profiles[n]].task = t)

\* The unfinished solver tasks of the profile objects that have name n.
TasksOf(n) ==
    {t \in TaskIds : /\ tasks[t].kind = "solver" /\ ~Done(tasks[t])
                     /\ objs[tasks[t].profile].profile_name = n}

\* C38: whatever reloads have replaced, removed or added, at most one solver
\* task of a profile name is unfinished.
C38_OnePerName == \A n \in Names : Cardinality(TasksOf(n)) <= 1

\* C39: whenever a reload is suspended, which is when the scheduler and the
\* other handlers run, the store has every profile that the reload finds
\* both in the old and in the new configuration.
C39_StoreDuringReload ==
    \A c \in Conns :
       conn[c].cmd = "reload" => \A n \in Kept(conn[c]) : profiles[n] # None

\* The reload of c fails in this step: the connection is closed with
\* server_error.
ReloadFails(c) ==
    /\ conn[c].cmd = "reload"
    /\ sent'.conn = c /\ sent'.resp = RconExitResponse("server_error")

\* C40: when a reload fails after it has loaded the configuration, the store
\* holds the profiles the reload has taken out or the profiles it has built,
\* and stays so until the next reload.
C40_FailedReloadKeepsStore ==
    /\ [][\A c \in Conns :
             ReloadFails(c)
             => \/ profiles' = conn[c].old_profiles
                \/ profiles' = conn[c].new_profiles]_vars
    /\ [][(\E n \in Names : profiles[n] # None) /\ profiles' = EmptyStore
          => \E c \in Conns : conn'[c].cmd = "reload"]_vars
====
